---- MODULE Spec2Model ----
(***************************************************************************)
(* The test runner of tsuite (src/tsuite/tsuite/cli.py): main creates the  *)
(* run and its PENDING test records and hands the selected tests to        *)
(* run_local_mode or run_docker_mode.  run_docker_mode runs                *)
(* execute_single_test for every test, inline when max_workers == 1 and in *)
(* a WorkerPool otherwise; execute_single_test wraps the container run in  *)
(* execute_with_timeout and classifies the outcome.                        *)
(*                                                                         *)
(* The control-plane server (src/tsuite/tsuite/server.py) runs beside the  *)
(* run, one thread per request, and keeps per-test state, captured values  *)
(* and progress that the containers reach through RunnerClient             *)
(* (src/tsuite/tsuite/client.py).                                          *)
(***************************************************************************)
EXTENDS Integers, Sequences, FiniteSets, TLC

\* ------------------------------------------------------------------ bounds
NumTests == 3
MaxWorkers == 2

\* execution.get("timeout", 300)
DefaultTimeout == 300
ShortTimeout == 5
\* rows of test_results the flaky-test query is run over
MaxRows == 4
\* def get_flaky_tests(limit: int = 20)
DefaultLimit == 20
\* longest right-hand literal of an assertion expression, in characters
MaxLit == 2
\* largest integer a context holds (exit codes, counters)
MaxInt == 2
\* requests the clients send in one exploration of the control plane
MaxOps == 3
MaxSteps == 2

Tests == 1..NumTests
Timeouts == {ShortTimeout, DefaultTimeout}

\* What the container run of a test does: it returns a passing result, it
\* returns a failing result, it raises, it returns only after the timeout
\* has elapsed ("slow"), or it never returns ("hang").
DockerKinds == {"pass", "fail", "raise", "slow", "hang"}
\* TestExecutor.execute returns a TestResult, passed or not.
LocalKinds == {"pass", "fail"}

\* models.py: class TestStatus(Enum)
TestStatus == {"pending", "running", "passed", "failed", "skipped"}
\* models.py: class RunStatus(Enum)
RunStatus == {"pending", "running", "completed", "failed", "cancelled"}

VARIABLES
    mode,            \* "docker" | "local": main's --docker switch
    max_workers,     \* config.execution.max_workers
    stop_on_fail,    \* --stop-on-fail
    test_timeout,    \* config.execution.timeout, seconds
    kind,            \* kind[t]: what running test t does
    dbFault,         \* dbFault[t]: the persistence call that raises for t
    api_server,      \* what the health checks of ensure_api_server find
    main,            \* position of the main thread
    idx,             \* index of the sequential for loop
    submitted,       \* tests handed to pool.submit
    pc,              \* pc[t]: position of execute_single_test(t)
    work,            \* work[t]: the thread running executor.execute_test(t)
    ret,             \* ret[t]: the TestResult execute_single_test(t) returned
    collected,       \* futures the as_completed loop has consumed
    results,         \* the results list
    stop_requested,
    dbStatus,        \* dbStatus[t]: status column of the test_results row
    dbError,         \* dbError[t]: error_message column
    sse,             \* sse[t]: last event emitted for t
    runStatus,       \* status column of the runs row
    exitCode,        \* process exit status, -1 while running
    test_state,      \* test_state[id]: the state dictionary of a test
    captured,        \* captured[id]: the captured values of a test
    progress_of,     \* progress_of[id]: the progress entry of a test
    req,             \* req[c]: the request of client c the server handles
    resp,            \* resp[c]: the last response client c received
    written,         \* written[id]: <<namespace, key, value>> sent to id
    nops,            \* requests sent so far
    table,           \* table[id][status]: rows of test_results per test and status
    flaky,           \* the rows the last get_flaky_tests returned
    context,         \* the context of the ExpressionEvaluator
    outcome,         \* the last call of the evaluator and what it gave
    tplan,           \* the steps of the test under execution, per phase
    tphase,          \* the phase the test's execution is in
    tstep,           \* index of the next step of that phase
    tlog,            \* what the execution has done so far, in order
    tlast,           \* last in the evaluator context of the test
    net,             \* what a request of the RunnerClient meets
    answer,          \* the JSON the server answers with when it answers
    cres             \* the RunnerClient call under way and its outcome

storeVars == <<test_state, captured, progress_of, req, resp, written, nops>>

flakyVars == <<table, flaky>>
exprVars == <<context, outcome>>
stepVars == <<tplan, tphase, tstep, tlog, tlast>>
clientVars == <<net, answer, cres>>
engineVars == <<flakyVars, exprVars, stepVars, clientVars>>

runVars == <<mode, max_workers, stop_on_fail, test_timeout, kind, dbFault, api_server, main, idx,
             submitted, pc, work, ret, collected, results, stop_requested,
             dbStatus, dbError, sse, runStatus, exitCode>>

vars == <<runVars, storeVars, engineVars>>

inputs == <<mode, max_workers, stop_on_fail, test_timeout, kind, dbFault, api_server>>

\* --------------------------------------------------------------- messages
NoError == [text |-> "None", arg |-> -1]

\* f"Execution exceeded {timeout_seconds}s timeout"
TimeoutMessage(timeout_seconds) ==
    [text |-> "Execution exceeded {}s timeout", arg |-> timeout_seconds]

\* f"Container/process crashed: {e}"
CrashMessage == [text |-> "Container/process crashed: {}", arg |-> -1]

\* the error a failed container run reports
FailMessage == [text |-> "Test failed", arg |-> -1]

NoResult == [test_id |-> 0, passed |-> FALSE, error |-> NoError, steps_failed |-> 0]

\* ----------------------------------------------------------- persistence
\* repo.update_test_status(run_id, test_id, status=..., error_message=...)
update_test_status(db, t, status) == [db EXCEPT ![t] = status]

\* TestStatus.<NAME>: attribute lookup on the enum class
HasMember(name) == name \in TestStatus

\* ------------------------------------------------------- WorkerPool
\* WorkerPool.__init__: self.max_workers = max(1, max_workers)
PoolSize == IF max_workers > 1 THEN max_workers ELSE 1

Executing == {t \in Tests : pc[t] \in {"waiting", "timedout"}}

\* ------------------------------------------------- execute_single_test
\* execute_single_test without its RUNNING update of lines 997-1002
ExecBegin_NoRunning(t) ==
    /\ pc[t] = "pending"
    /\ sse' = [sse EXCEPT ![t] = "started"]
    /\ pc' = [pc EXCEPT ![t] = "waiting"]
    /\ work' = [work EXCEPT ![t] = "running"]
    /\ UNCHANGED dbStatus

\* lines 993-1013: mark RUNNING, emit test_started, enter
\* execute_with_timeout, which submits the container run to its own
\* one-thread executor and waits on future.result(timeout=...)
ExecBegin(t) ==
    /\ pc[t] = "pending"
    /\ dbStatus' = update_test_status(dbStatus, t, "running")
    /\ sse' = [sse EXCEPT ![t] = "started"]
    /\ pc' = [pc EXCEPT ![t] = "waiting"]
    /\ work' = [work EXCEPT ![t] = "running"]

\* the container run of t ends: executor.execute_test returns or raises.
\* A slow run ends only after the timeout elapsed; a hanging run never ends.
WorkReturn(t) ==
    /\ work[t] = "running"
    /\ kind[t] # "hang"
    /\ kind[t] = "slow" => pc[t] = "timedout"
    /\ work' = [work EXCEPT ![t] = IF kind[t] = "raise" THEN "raised" ELSE "returned"]
    /\ UNCHANGED <<inputs, storeVars, engineVars, main, idx, submitted, pc, ret, collected, results,
                   stop_requested, dbStatus, dbError, sse, runStatus, exitCode>>

\* a timeout whose clock runs from the submission of the test to the
\* worker pool: it may fire while the test is still queued
TimeoutFires_QueueCounted(t) ==
    /\ pc[t] \in {"pending", "waiting"}
    /\ pc[t] = "waiting" => work[t] = "running"
    /\ kind[t] \in {"slow", "hang"}
    /\ pc' = [pc EXCEPT ![t] = "timedout"]
    /\ UNCHANGED <<inputs, storeVars, engineVars, main, idx, submitted, work, ret, collected, results,
                   stop_requested, dbStatus, dbError, sse, runStatus, exitCode>>

\* execute_with_timeout: future.result(timeout=timeout_seconds) raises
\* FuturesTimeoutError, the handler raises TestTimeoutError inside the
\* with block
TimeoutFires(t) ==
    /\ pc[t] = "waiting"
    /\ work[t] = "running"
    /\ kind[t] \in {"slow", "hang"}
    /\ pc' = [pc EXCEPT ![t] = "timedout"]
    /\ UNCHANGED <<inputs, storeVars, engineVars, main, idx, submitted, work, ret, collected, results,
                   stop_requested, dbStatus, dbError, sse, runStatus, exitCode>>

\* execute_with_timeout leaves its with block: ThreadPoolExecutor.__exit__
\* is shutdown(wait=True), so both the return of the result and the
\* propagation of TestTimeoutError wait for the container run to end
TimeoutExitReady(t) ==
    /\ pc[t] \in {"waiting", "timedout"}
    /\ work[t] \in {"returned", "raised"}

\* the try statement with its handlers in the other order: the timeout
\* error is caught by the handler of Exception
DockerResult_CrashFirst(t) ==
    IF pc[t] = "timedout" \/ work[t] = "raised"
    THEN [passed |-> FALSE, error |-> CrashMessage, crashed |-> TRUE]
    ELSE IF kind[t] = "pass"
    THEN [passed |-> TRUE, error |-> NoError, crashed |-> FALSE]
    ELSE [passed |-> FALSE, error |-> FailMessage, crashed |-> FALSE]

\* lines 1009-1034: the docker_result of the try statement
DockerResult(t) ==
    IF pc[t] = "timedout"
    THEN [passed |-> FALSE, error |-> TimeoutMessage(test_timeout), crashed |-> FALSE]
    ELSE IF work[t] = "raised"
    THEN [passed |-> FALSE, error |-> CrashMessage, crashed |-> TRUE]
    ELSE IF kind[t] = "pass"
    THEN [passed |-> TRUE, error |-> NoError, crashed |-> FALSE]
    ELSE [passed |-> FALSE, error |-> FailMessage, crashed |-> FALSE]

\* lines 1037-1049: TestResult(...)
ToTestResult(t, d) ==
    [test_id |-> t, passed |-> d.passed, error |-> d.error,
     steps_failed |-> IF d.passed THEN 0 ELSE 1]

\* lines 1053-1058: the status written to the database
StatusName(d) ==
    IF d.crashed THEN "crashed"
    ELSE IF d.passed THEN "passed"
    ELSE "failed"

\* lines 1070-1075: the status of the test_completed event
SseStatus(d) ==
    IF d.passed THEN "passed"
    ELSE IF d.crashed THEN "crashed"
    ELSE "failed"

\* execute_single_test raises instead of returning: the status lookup
\* TestStatus.<NAME> fails for a name the enum does not define, or a call
\* of the persistence collaborator raises; neither call is in a try block
ExecRaises(t) ==
    \/ ~HasMember(StatusName(DockerResult(t)))
    \/ dbFault[t] # "none"

\* lines 1036-1086 when no exception escapes
ExecEnd(t) ==
    LET d == DockerResult(t) IN
    /\ dbStatus' = update_test_status(dbStatus, t, StatusName(d))
    /\ dbError' = [dbError EXCEPT ![t] = d.error]
    /\ sse' = [sse EXCEPT ![t] = SseStatus(d)]
    /\ ret' = [ret EXCEPT ![t] = ToTestResult(t, d)]
    /\ pc' = [pc EXCEPT ![t] = "done"]

\* lines 1036-1077 when an exception escapes: the status lookup (1054) or
\* update_test_status (1059) raises before the row is written,
\* emit_test_completed (1077) raises after it
ExecAbort(t) ==
    LET d == DockerResult(t) IN
    /\ pc' = [pc EXCEPT ![t] = "raised"]
    /\ IF HasMember(StatusName(d)) /\ dbFault[t] = "emit"
       THEN /\ dbStatus' = update_test_status(dbStatus, t, StatusName(d))
            /\ dbError' = [dbError EXCEPT ![t] = d.error]
       ELSE UNCHANGED <<dbStatus, dbError>>
    /\ UNCHANGED <<sse, ret>>

\* ----------------------------------------------------------- main, startup
\* ensure_api_server: the server is already healthy, or the one it starts
\* becomes healthy within the timeout, or RuntimeError is raised
ensure_api_server == IF api_server = "unreachable" THEN "RuntimeError" ELSE "api_url"

\* main, lines 599-608: the RuntimeError of ensure_api_server is caught,
\* a warning is printed and main goes on to discover and run the tests
Startup ==
    /\ main = "startup"
    /\ ensure_api_server \in {"api_url", "RuntimeError"}
    /\ main' = "loop"
    /\ UNCHANGED <<inputs, storeVars, engineVars, idx, submitted, pc, work, ret, collected,
                   results, stop_requested, dbStatus, dbError, sse, runStatus, exitCode>>

\* ------------------------------------------- run_docker_mode, sequential
\* lines 1101-1107: next iteration of the for loop, up to the wait
SeqBegin(t) ==
    /\ mode = "docker" /\ max_workers = 1
    /\ main = "loop" /\ idx = t /\ ~stop_requested
    /\ ExecBegin(t)
    /\ main' = "call"
    /\ UNCHANGED <<inputs, storeVars, engineVars, idx, submitted, ret, collected, results,
                   stop_requested, dbError, runStatus, exitCode>>

\* lines 1107-1116: execute_single_test returns into the loop body
SeqFinish(t) ==
    /\ mode = "docker" /\ max_workers = 1
    /\ main = "call" /\ idx = t
    /\ TimeoutExitReady(t)
    /\ IF ExecRaises(t)
       THEN /\ ExecAbort(t)
            /\ main' = "aborted"
            /\ exitCode' = 1
            /\ UNCHANGED <<results, stop_requested, idx>>
       ELSE /\ ExecEnd(t)
            /\ results' = Append(results, ToTestResult(t, DockerResult(t)))
            /\ stop_requested' = (stop_requested \/ (~DockerResult(t).passed /\ stop_on_fail))
            /\ idx' = idx + 1
            /\ main' = "loop"
            /\ UNCHANGED exitCode
    /\ UNCHANGED <<inputs, storeVars, engineVars, submitted, work, collected, runStatus>>

\* lines 1101-1103, 1148: the loop is exhausted or breaks on stop_requested
SeqReturn ==
    /\ mode = "docker" /\ max_workers = 1
    /\ main = "loop"
    /\ idx > NumTests \/ stop_requested
    /\ main' = "returned"
    /\ UNCHANGED <<inputs, storeVars, engineVars, idx, submitted, pc, work, ret, collected, results,
                   stop_requested, dbStatus, dbError, sse, runStatus, exitCode>>

\* --------------------------------------------- run_docker_mode, parallel
\* lines 1122-1127: enter the pool and submit every test
ParSubmitAll ==
    /\ mode = "docker" /\ max_workers # 1
    /\ main = "loop"
    /\ submitted' = Tests
    /\ main' = "collect"
    /\ UNCHANGED <<inputs, storeVars, engineVars, idx, pc, work, ret, collected, results,
                   stop_requested, dbStatus, dbError, sse, runStatus, exitCode>>

\* a free worker thread of the pool takes the oldest queued unit
ParBegin(t) ==
    /\ mode = "docker" /\ max_workers # 1
    /\ t \in submitted
    /\ \A u \in Tests : u < t => pc[u] # "pending"
    /\ Cardinality(Executing) < PoolSize
    /\ ExecBegin(t)
    /\ UNCHANGED <<inputs, storeVars, engineVars, main, idx, submitted, ret, collected, results,
                   stop_requested, dbError, runStatus, exitCode>>

\* execute_single_test ends in its worker thread: the future is done
ParFinish(t) ==
    /\ mode = "docker" /\ max_workers # 1
    /\ TimeoutExitReady(t)
    /\ IF ExecRaises(t) THEN ExecAbort(t) ELSE ExecEnd(t)
    /\ UNCHANGED <<inputs, storeVars, engineVars, main, idx, submitted, work, collected, results,
                   stop_requested, runStatus, exitCode>>

\* the as_completed loop cancelling the futures still queued when it
\* observes a failed result with stop_on_fail
ParCollect_CancelQueued(t) ==
    /\ mode = "docker" /\ max_workers # 1
    /\ main = "collect"
    /\ t \in submitted \ collected
    /\ pc[t] \in {"done", "raised"}
    /\ collected' = collected \cup {t}
    /\ IF pc[t] = "done"
       THEN /\ results' = Append(results, ret[t])
            /\ stop_requested' = (stop_requested \/ (~ret[t].passed /\ stop_on_fail))
            /\ submitted' = IF ~ret[t].passed /\ stop_on_fail
                            THEN {u \in submitted : pc[u] # "pending"}
                            ELSE submitted
       ELSE UNCHANGED <<results, stop_requested, submitted>>
    /\ UNCHANGED <<inputs, storeVars, engineVars, main, idx, pc, work, ret,
                   dbStatus, dbError, sse, runStatus, exitCode>>

\* lines 1131-1146: one iteration of the as_completed loop
ParCollect(t) ==
    /\ mode = "docker" /\ max_workers # 1
    /\ main = "collect"
    /\ t \in submitted \ collected
    /\ pc[t] \in {"done", "raised"}
    /\ collected' = collected \cup {t}
    /\ IF pc[t] = "done"
       THEN /\ results' = Append(results, ret[t])
            /\ stop_requested' = (stop_requested \/ (~ret[t].passed /\ stop_on_fail))
       ELSE UNCHANGED <<results, stop_requested>>
    /\ UNCHANGED <<inputs, storeVars, engineVars, main, idx, submitted, pc, work, ret,
                   dbStatus, dbError, sse, runStatus, exitCode>>

\* WorkerPool.__exit__: executor.shutdown(wait=True)
PoolDrained == \A t \in submitted : pc[t] \in {"done", "raised"}

\* the collecting loop left after the first completed future
ParReturn_FirstCompleted ==
    /\ mode = "docker" /\ max_workers # 1
    /\ main = "collect"
    /\ collected # {}
    /\ main' = "returned"
    /\ UNCHANGED <<inputs, storeVars, engineVars, idx, submitted, pc, work, ret, collected, results,
                   stop_requested, dbStatus, dbError, sse, runStatus, exitCode>>

\* lines 1131, 1122, 1148: as_completed is exhausted, the pool is left
ParReturn ==
    /\ mode = "docker" /\ max_workers # 1
    /\ main = "collect"
    /\ collected = submitted
    /\ PoolDrained
    /\ main' = "returned"
    /\ UNCHANGED <<inputs, storeVars, engineVars, idx, submitted, pc, work, ret, collected, results,
                   stop_requested, dbStatus, dbError, sse, runStatus, exitCode>>

\* ------------------------------------------------------- run_local_mode
\* lines 868-884: mark RUNNING, emit test_started, call executor.execute
LocalBegin(t) ==
    /\ mode = "local"
    /\ main = "loop" /\ idx = t
    /\ ExecBegin(t)
    /\ main' = "call"
    /\ UNCHANGED <<inputs, storeVars, engineVars, idx, submitted, ret, collected, results,
                   stop_requested, dbError, runStatus, exitCode>>

\* the TestResult of executor.execute(test)
LocalResult(t) ==
    IF kind[t] = "pass"
    THEN [test_id |-> t, passed |-> TRUE, error |-> NoError, steps_failed |-> 0]
    ELSE [test_id |-> t, passed |-> FALSE, error |-> FailMessage, steps_failed |-> 1]

\* a failing local result classified as a crash
LocalStatus_Crashed(r) == IF r.passed THEN "passed" ELSE "crashed"

\* line 889: status = TestStatus.PASSED if result.passed else TestStatus.FAILED
LocalStatus(r) == IF r.passed THEN "passed" ELSE "failed"

\* lines 884-915: the result is appended and persisted; break on a
\* failure with stop_on_fail
LocalFinish(t) ==
    LET r == LocalResult(t) IN
    /\ mode = "local"
    /\ main = "call" /\ idx = t
    /\ results' = Append(results, r)
    /\ work' = [work EXCEPT ![t] = "returned"]
    /\ IF dbFault[t] = "none"
       THEN /\ dbStatus' = update_test_status(dbStatus, t, LocalStatus(r))
            /\ dbError' = [dbError EXCEPT ![t] = r.error]
            /\ sse' = [sse EXCEPT ![t] = IF r.passed THEN "passed" ELSE "failed"]
            /\ ret' = [ret EXCEPT ![t] = r]
            /\ pc' = [pc EXCEPT ![t] = "done"]
            /\ IF ~r.passed /\ stop_on_fail
               THEN main' = "returned" /\ UNCHANGED idx
               ELSE main' = "loop" /\ idx' = idx + 1
            /\ UNCHANGED exitCode
       ELSE \* update_test_status (890) or emit_test_completed (900) raises
            \* out of the loop and out of main
            /\ IF dbFault[t] = "emit"
               THEN /\ dbStatus' = update_test_status(dbStatus, t, LocalStatus(r))
                    /\ dbError' = [dbError EXCEPT ![t] = r.error]
               ELSE UNCHANGED <<dbStatus, dbError>>
            /\ pc' = [pc EXCEPT ![t] = "raised"]
            /\ main' = "aborted"
            /\ exitCode' = 1
            /\ UNCHANGED <<sse, ret, idx>>
    /\ UNCHANGED <<inputs, storeVars, engineVars, submitted, collected, stop_requested, runStatus>>

\* lines 868, 917: the loop is exhausted
LocalReturn ==
    /\ mode = "local"
    /\ main = "loop"
    /\ idx > NumTests
    /\ main' = "returned"
    /\ UNCHANGED <<inputs, storeVars, engineVars, idx, submitted, pc, work, ret, collected, results,
                   stop_requested, dbStatus, dbError, sse, runStatus, exitCode>>

\* ------------------------------------------------------------------ main
\* repository.complete_run: failed counts the rows whose status is FAILED
complete_run ==
    IF Cardinality({t \in Tests : dbStatus[t] = "failed"}) = 0
    THEN "completed" ELSE "failed"

\* main, lines 780-818: complete the run record and exit
MainExit ==
    /\ main = "returned"
    /\ runStatus' = complete_run
    /\ exitCode' = IF \E i \in 1..Len(results) : ~results[i].passed THEN 1 ELSE 0
    /\ main' = "exited"
    /\ UNCHANGED <<inputs, storeVars, engineVars, idx, submitted, pc, work, ret, collected, results,
                   stop_requested, dbStatus, dbError, sse>>

\* ------------------------------------------------- control-plane server
\* test identities: the <path:test_id> segment of the per-test routes
Ids == {"A", "B"}

\* RunnerClient instances: one in the container of test A, one in the
\* container of test B; each has at most one request under way
Clients == {"a1", "b1"}

\* RunnerClient.__init__: self.test_id = test_id or TSUITE_TEST_ID
client_test_id(c) == IF c = "b1" THEN "B" ELSE "A"

\* {}
EmptyDict == [k \in {} |-> 0]

\* JSON objects posted to /state/<id> and /capture/<id>
DataSet == {[a |-> 1], [b |-> 2], [a |-> 2, b |-> 1]}

\* JSON objects posted to /progress/<id>
ProgressPosts ==
    {EmptyDict, [step |-> 1], [step |-> 2, status |-> "passed", message |-> "done"]}

\* dict.get(key, default)
DictGet(d, key, default) == IF key \in DOMAIN d THEN d[key] ELSE default

\* a whole-object replacement in place of the merge
Merge_Replace(old, D) == D

\* dict.update: D's keys are set to D's values, the other keys are kept
Merge(old, D) ==
    [k \in DOMAIN old \cup DOMAIN D |-> IF k \in DOMAIN D THEN D[k] ELSE old[k]]

\* runtime.update_test_state(test_id, data)
runtime_update_test_state(ts, test_id, data) ==
    [ts EXCEPT ![test_id] = Merge(ts[test_id], data)]

\* a captured value that is written once and then kept
runtime_set_captured_KeepFirst(cap, test_id, name, value) ==
    IF name \in DOMAIN cap[test_id]
    THEN cap
    ELSE [cap EXCEPT ![test_id] =
             [k \in DOMAIN cap[test_id] \cup {name} |->
                 IF k = name THEN value ELSE cap[test_id][k]]]

\* runtime.set_captured(test_id, name, value)
runtime_set_captured(cap, test_id, name, value) ==
    [cap EXCEPT ![test_id] =
        [k \in DOMAIN cap[test_id] \cup {name} |->
            IF k = name THEN value ELSE cap[test_id][k]]]

\* runtime.update_progress(test_id, step=..., status=..., message=...)
runtime_update_progress(pr, test_id, step, status, message) ==
    [pr EXCEPT ![test_id] = [step |-> step, status |-> status, message |-> message]]

\* one state dictionary shared by all identities
runtime_get_test_state_Shared(test_id) ==
    LET other == CHOOSE i \in Ids : i # test_id
    IN  Merge(test_state[other], test_state[test_id])

\* runtime.get_test_state(test_id)
runtime_get_test_state(test_id) == test_state[test_id]

\* runtime.get_progress(test_id)
runtime_get_progress(test_id) == progress_of[test_id]

\* runtime.get_test_context(test_id).to_dict(); every identity of Ids is a
\* test that has a context
runtime_get_test_context(test_id) ==
    [state |-> test_state[test_id], captured |-> captured[test_id]]

NoReq == [op |-> "none", tid |-> "-", data |-> EmptyDict, todo |-> {}, alone |-> TRUE]
NoResp == [op |-> "none", tid |-> "-", body |-> EmptyDict]
Ok == [status |-> "ok"]

\* the capture requests for test_id the server is handling
CapturesInFlight(test_id) ==
    {c \in Clients : req[c].op = "capture" /\ req[c].tid = test_id}

\* the requests RunnerClient can send for the identity tid
RequestsTo(tid) ==
    {[op |-> o, tid |-> tid, data |-> D, todo |-> {}, alone |-> TRUE] :
        o \in {"update_state"}, D \in DataSet}
    \cup {[op |-> "capture", tid |-> tid, data |-> D, todo |-> DOMAIN D,
           alone |-> CapturesInFlight(tid) = {}] : D \in DataSet}
    \cup {[op |-> "progress", tid |-> tid, data |-> D, todo |-> {}, alone |-> TRUE] :
            D \in ProgressPosts}
    \cup {[op |-> o, tid |-> tid, data |-> EmptyDict, todo |-> {}, alone |-> TRUE] :
            o \in {"get_state", "get_progress", "get_context"}}

\* the namespace a posting request writes to
Namespace(op) ==
    IF op = "update_state" THEN "state"
    ELSE IF op = "capture" THEN "captured" ELSE "progress"

\* RunnerClient._get / _post with tid = test_id or self.test_id: client c
\* sends a request for identity tid and blocks until the response; the
\* server (threaded=True) starts a thread for it
Request(c) ==
    /\ nops < MaxOps
    /\ req[c] = NoReq
    /\ \E tid \in Ids : \E r \in RequestsTo(tid) :
          /\ req' = [d \in Clients |->
                        IF d = c THEN r
                        ELSE IF r.op = "capture" /\ d \in CapturesInFlight(tid)
                             THEN [req[d] EXCEPT !.alone = FALSE]
                             ELSE req[d]]
          /\ written' = [written EXCEPT ![tid] =
                            @ \cup {<<Namespace(r.op), k, r.data[k]>> : k \in DOMAIN r.data}]
    /\ resp' = [resp EXCEPT ![c] = NoResp]
    /\ nops' = nops + 1
    /\ UNCHANGED <<runVars, engineVars, test_state, captured, progress_of>>

\* the handler returns jsonify(body)
Served(c, body) ==
    /\ resp' = [resp EXCEPT ![c] = [op |-> req[c].op, tid |-> req[c].tid, body |-> body]]
    /\ req' = [req EXCEPT ![c] = NoReq]

\* create_app.update_state, POST /state/<test_id>
update_state(c) ==
    /\ req[c].op = "update_state"
    /\ test_state' = runtime_update_test_state(test_state, req[c].tid, req[c].data)
    /\ Served(c, Ok)
    /\ UNCHANGED <<runVars, engineVars, captured, progress_of, written, nops>>

\* create_app.capture, POST /capture/<test_id>: one iteration of
\* for name, value in data.items(): runtime.set_captured(...)
capture(c) ==
    /\ req[c].op = "capture"
    /\ \E name \in req[c].todo :
          /\ captured' = runtime_set_captured(captured, req[c].tid, name, req[c].data[name])
          /\ req' = [req EXCEPT ![c].todo = @ \ {name}]
    /\ UNCHANGED <<runVars, engineVars, test_state, progress_of, resp, written, nops>>

\* create_app.capture: the loop is exhausted, the handler returns
capture_return(c) ==
    /\ req[c].op = "capture"
    /\ req[c].todo = {}
    /\ Served(c, Ok)
    /\ UNCHANGED <<runVars, engineVars, test_state, captured, progress_of, written, nops>>

\* a progress post that starts the test over when it reports step 0
progress_ResetOnStepZero(c) ==
    LET data == req[c].data
        step == DictGet(data, "step", 0) IN
    /\ req[c].op = "progress"
    /\ progress_of' = runtime_update_progress(progress_of, req[c].tid, step,
                          DictGet(data, "status", "running"), DictGet(data, "message", ""))
    /\ IF step = 0
       THEN /\ test_state' = [test_state EXCEPT ![req[c].tid] = EmptyDict]
            /\ captured' = [captured EXCEPT ![req[c].tid] = EmptyDict]
       ELSE UNCHANGED <<test_state, captured>>
    /\ Served(c, Ok)
    /\ UNCHANGED <<runVars, engineVars, written, nops>>

\* create_app.progress, POST /progress/<test_id>
progress(c) ==
    LET data == req[c].data IN
    /\ req[c].op = "progress"
    /\ progress_of' = runtime_update_progress(progress_of, req[c].tid,
                          DictGet(data, "step", 0),
                          DictGet(data, "status", "running"),
                          DictGet(data, "message", ""))
    /\ Served(c, Ok)
    /\ UNCHANGED <<runVars, engineVars, test_state, captured, written, nops>>

\* create_app.get_state, GET /state/<test_id>
get_state(c) ==
    /\ req[c].op = "get_state"
    /\ Served(c, runtime_get_test_state(req[c].tid))
    /\ UNCHANGED <<runVars, engineVars, test_state, captured, progress_of, written, nops>>

\* create_app.get_progress, GET /progress/<test_id>
get_progress(c) ==
    /\ req[c].op = "get_progress"
    /\ Served(c, runtime_get_progress(req[c].tid))
    /\ UNCHANGED <<runVars, engineVars, test_state, captured, progress_of, written, nops>>

\* create_app.get_context, GET /context/<test_id>
get_context(c) ==
    /\ req[c].op = "get_context"
    /\ Served(c, runtime_get_test_context(req[c].tid))
    /\ UNCHANGED <<runVars, engineVars, test_state, captured, progress_of, written, nops>>

\* the server has no test data and handles no request
StoreIdle ==
    /\ test_state = [i \in Ids |-> EmptyDict]
    /\ captured = [i \in Ids |-> EmptyDict]
    /\ progress_of = [i \in Ids |-> EmptyDict]
    /\ req = [c \in Clients |-> NoReq]
    /\ resp = [c \in Clients |-> NoResp]
    /\ written = [i \in Ids |-> {}]
    /\ nops = 0

\* ------------------------------------------------- expressions: values
\* Python values.  A string is the sequence of its characters; a run of
\* characters that VAR_PATTERN matches as one reference, "${...}", is kept
\* as one element.
NoneValue == [t |-> "NoneType", n |-> 0, s |-> <<>>, m |-> EmptyDict]
IntValue(i) == [t |-> "int", n |-> i, s |-> <<>>, m |-> EmptyDict]
\* a float, held in tenths
FloatValue(tenths) == [t |-> "float", n |-> tenths, s |-> <<>>, m |-> EmptyDict]
BoolValue(b) == [t |-> "bool", n |-> IF b THEN 1 ELSE 0, s |-> <<>>, m |-> EmptyDict]
StrValue(chars) == [t |-> "str", n |-> 0, s |-> chars, m |-> EmptyDict]
\* a list of n elements
ListValue(n) == [t |-> "list", n |-> n, s |-> <<>>, m |-> EmptyDict]
DictValue(m) == [t |-> "dict", n |-> 0, s |-> <<>>, m |-> m]

Digits == {"0", "1", "2", "3", "4", "5", "6", "7", "8", "9"}
DigitValue(c) ==
    CASE c = "0" -> 0 [] c = "1" -> 1 [] c = "2" -> 2 [] c = "3" -> 3
      [] c = "4" -> 4 [] c = "5" -> 5 [] c = "6" -> 6 [] c = "7" -> 7
      [] c = "8" -> 8 [] c = "9" -> 9
DigitChar(d) ==
    CASE d = 0 -> "0" [] d = 1 -> "1" [] d = 2 -> "2" [] d = 3 -> "3"
      [] d = 4 -> "4" [] d = 5 -> "5" [] d = 6 -> "6" [] d = 7 -> "7"
      [] d = 8 -> "8" [] d = 9 -> "9"

RECURSIVE IntChars(_)
\* str(i) of a non-negative int
IntChars(i) == IF i < 10 THEN <<DigitChar(i)>> ELSE Append(IntChars(i \div 10), DigitChar(i % 10))

RECURSIVE DigitsValue(_)
\* int() of a sequence of digits
DigitsValue(chars) ==
    IF chars = <<>> THEN 0
    ELSE 10 * DigitsValue(SubSeq(chars, 1, Len(chars) - 1)) + DigitValue(chars[Len(chars)])

RECURSIVE Strip(_)
\* str.strip()
Strip(chars) ==
    IF chars = <<>> THEN chars
    ELSE IF chars[1] = " " THEN Strip(Tail(chars))
    ELSE IF chars[Len(chars)] = " " THEN Strip(SubSeq(chars, 1, Len(chars) - 1))
    ELSE chars

AllDigits(chars) == \A i \in 1..Len(chars) : chars[i] \in Digits

\* an exception of the given class propagating in place of a value
Raised(name) == [t |-> "raised", n |-> 0, s |-> <<name>>, m |-> EmptyDict]

\* float(str): optional blanks around digits, with at most one "." and a
\* digit on at least one side of it.  The value is held in tenths, exact
\* for the one decimal place the inputs have.  ValueError otherwise.
ParseFloat(chars) ==
    LET c == Strip(chars)
        dots == {i \in 1..Len(c) : c[i] = "."}
    IN  IF c = <<>> THEN Raised("ValueError")
        ELSE IF dots = {} THEN
            IF AllDigits(c) THEN FloatValue(10 * DigitsValue(c)) ELSE Raised("ValueError")
        ELSE IF Cardinality(dots) > 1 THEN Raised("ValueError")
        ELSE LET d == CHOOSE i \in dots : TRUE
                 whole == SubSeq(c, 1, d - 1)
                 frac == SubSeq(c, d + 1, Len(c))
             IN  IF AllDigits(whole) /\ AllDigits(frac) /\ Len(whole) + Len(frac) > 0
                    /\ Len(frac) <= 1
                 THEN FloatValue(10 * DigitsValue(whole) + DigitsValue(frac))
                 ELSE Raised("ValueError")

\* float(value) for a value that is not None: a FloatValue, or ValueError
\* or TypeError raised
ToFloat(v) ==
    CASE v.t \in {"int", "bool"} -> FloatValue(10 * v.n)
      [] v.t = "float" -> v
      [] v.t = "str" -> ParseFloat(v.s)
      [] OTHER -> Raised("TypeError")

\* str(value)
ToStr(v) ==
    CASE v.t = "str" -> v.s
      [] v.t = "int" -> IntChars(v.n)
      [] v.t = "float" -> IntChars(v.n \div 10) \o <<".">> \o IntChars(v.n % 10)
      [] v.t = "bool" -> IF v.n = 1 THEN <<"T", "r", "u", "e">> ELSE <<"F", "a", "l", "s", "e">>
      [] v.t = "NoneType" -> <<"N", "o", "n", "e">>
      [] v.t = "list" -> <<"[">> \o [i \in 1..v.n |-> "_"] \o <<"]">>
      [] OTHER -> <<"{", "}">>

\* bool(value): the truth value Python's "if actual" tests
Truthy(v) ==
    CASE v.t = "NoneType" -> FALSE
      [] v.t \in {"int", "float", "bool", "list"} -> v.n # 0
      [] v.t = "str" -> v.s # <<>>
      [] OTHER -> v.m # EmptyDict

\* ------------------------------------- expressions: resolve_variable
\* the context of an evaluator with the files and the environment its
\* references reach: ns maps the namespaces the context has to their
\* dictionaries
NsGet(c, name) == DictGet(c.ns, name, DictValue(EmptyDict))

\* a reference: the prefix resolve_variable tests with startswith, the
\* rest split at "." for the dot-path forms, the rest as it is for the
\* others
Ref(prefix, parts, arg) == [prefix |-> prefix, parts |-> parts, arg |-> arg]

\* the standard output that is a JSON document, and the document
JsonText == <<"{", "a", ":", "1", "}">>
JsonData == DictValue([a |-> IntValue(1)])

\* json.loads(value): the parsed document, JSONDecodeError for a string
\* that is no JSON text, TypeError for a value that is no string
json_loads(v) ==
    IF v.t # "str" THEN Raised("TypeError")
    ELSE LET c == Strip(v.s) IN
         IF c = JsonText THEN JsonData
         ELSE IF c # <<>> /\ AllDigits(c) THEN IntValue(DigitsValue(c))
         ELSE IF ParseFloat(c).t = "float" /\ c[1] # "." /\ c[Len(c)] # "."
              THEN ParseFloat(c)
         ELSE Raised("JSONDecodeError")

\* ExpressionEvaluator._jsonpath: no match and every exception give None,
\* one match gives the matched value
jsonpath(data, path) ==
    CASE path = "$" -> data
      [] path = "$.a" -> IF data.t = "dict" /\ "a" \in DOMAIN data.m
                         THEN data.m["a"] ELSE NoneValue
      [] OTHER -> NoneValue

RECURSIVE resolve_path(_, _)
\* ExpressionEvaluator._resolve_path over the parts of path.split(".")
resolve_path(value, parts) ==
    IF parts = <<>> THEN value
    ELSE IF value.t = "dict" /\ Head(parts) \in DOMAIN value.m
         THEN resolve_path(value.m[Head(parts)], Tail(parts))
         ELSE NoneValue

\* Path(path).read_text() inside try / except FileNotFoundError
read_text(c) ==
    CASE c.file = "missing" -> NoneValue
      [] c.file = "unreadable" -> Raised("PermissionError")
      [] c.file = "json" -> StrValue(JsonText)
      [] OTHER -> StrValue(<<"a", "b">>)

BareNames == {"exit_code", "stdout", "stderr"}

\* ExpressionEvaluator.resolve_variable
resolve_variable(c, var) ==
    CASE var.prefix = "config." -> resolve_path(NsGet(c, "config"), var.parts)
      [] var.prefix = "state." -> resolve_path(NsGet(c, "state"), var.parts)
      [] var.prefix = "captured." -> resolve_path(NsGet(c, "captured"), var.parts)
      [] var.prefix = "last." -> resolve_path(NsGet(c, "last"), var.parts)
      [] var.prefix = "params." -> resolve_path(NsGet(c, "params"), var.parts)
      [] var.prefix = "json:" ->
            LET stdout == DictGet(NsGet(c, "last").m, "stdout", StrValue(<<>>))
                data == json_loads(stdout)
            IN  IF data.t = "raised"
                THEN IF data.s = <<"JSONDecodeError">> THEN NoneValue ELSE data
                ELSE jsonpath(data, var.arg)
      [] var.prefix = "jsonfile:" ->
            CASE c.file = "missing" -> NoneValue
              [] c.file = "unreadable" -> Raised("PermissionError")
              [] c.file = "json" -> jsonpath(JsonData, var.arg)
              [] OTHER -> NoneValue
      [] var.prefix = "file:" -> read_text(c)
      [] var.prefix = "fixture:" ->
            IF "fixtures_dir" \in DOMAIN c.ns THEN read_text(c) ELSE NoneValue
      [] var.prefix = "env:" -> c.env
      [] OTHER ->
            IF Len(var.parts) = 1 /\ var.parts[1] \in BareNames
            THEN DictGet(NsGet(c, "last").m, var.parts[1], NoneValue)
            ELSE IF Len(var.parts) = 1 /\ var.parts[1] \in DOMAIN NsGet(c, "captured").m
            THEN NsGet(c, "captured").m[var.parts[1]]
            ELSE IF Len(var.parts) = 1 /\ var.parts[1] \in DOMAIN NsGet(c, "state").m
            THEN NsGet(c, "state").m[var.parts[1]]
            ELSE resolve_path(NsGet(c, "config"), var.parts)

\* ------------------------------------------ expressions: interpolate
\* The references that occur in the texts and expressions evaluated: the
\* element VAR_PATTERN matches, and the name inside its braces as
\* resolve_variable takes it apart.
RefTable ==
    [a \in {"${state.x}", "${state.zz}", "${last.exit_code}", "${exit_code}",
            "${json:$.a}", "${captured.x}"} |->
        CASE a = "${state.x}" -> Ref("state.", <<"x">>, "")
          [] a = "${state.zz}" -> Ref("state.", <<"zz">>, "")
          [] a = "${last.exit_code}" -> Ref("last.", <<"exit_code">>, "")
          [] a = "${exit_code}" -> Ref("", <<"exit_code">>, "")
          [] a = "${json:$.a}" -> Ref("json:", <<>>, "$.a")
          [] OTHER -> Ref("captured.", <<"x">>, "")]

RECURSIVE interpolate_NoneAsText(_, _)
\* interpolate with str(value) for every value, null included
interpolate_NoneAsText(c, text) ==
    IF text = <<>> THEN StrValue(<<>>)
    ELSE LET a == Head(text)
             value == IF a \in DOMAIN RefTable
                      THEN resolve_variable(c, RefTable[a]) ELSE NoneValue
             rest == interpolate_NoneAsText(c, Tail(text))
         IN  IF value.t = "raised" THEN value
             ELSE IF rest.t = "raised" THEN rest
             ELSE IF a \notin DOMAIN RefTable THEN StrValue(<<a>> \o rest.s)
             ELSE StrValue(ToStr(value) \o rest.s)

RECURSIVE interpolate(_, _)
\* ExpressionEvaluator.interpolate: VAR_PATTERN.sub(replace, text)
interpolate(c, text) ==
    IF text = <<>> THEN StrValue(<<>>)
    ELSE LET a == Head(text)
             value == IF a \in DOMAIN RefTable
                      THEN resolve_variable(c, RefTable[a]) ELSE NoneValue
             rest == interpolate(c, Tail(text))
         IN  IF value.t = "raised" THEN value
             ELSE IF rest.t = "raised" THEN rest
             ELSE IF value.t = "NoneType" THEN StrValue(<<a>> \o rest.s)
             ELSE StrValue(ToStr(value) \o rest.s)

\* --------------------------------------------- expressions: evaluate
\* the operators of EXPR_PATTERN
Operators ==
    {"==", "!=", ">=", "<=", ">", "<", "contains", "matches", "exists",
     "not exists", "not contains", "is", "length"}

\* An expression: the first token, the token after the blanks that follow
\* it, and the rest of the line.  EXPR_PATTERN matches when the first is a
\* reference and the second one of its operators; "not  exists" written
\* with two blanks matches not\s+exists.
Expr(head, op, raw) == [head |-> head, op |-> op, raw |-> raw]

IsReference(token) == token \in DOMAIN RefTable

PatternMatches(e) == IsReference(e.head) /\ e.op \in Operators \cup {"not  exists"}

\* lines 211-218: strip, then drop a pair of enclosing quotes
Unquote(raw) ==
    LET r == Strip(raw) IN
    IF r # <<>> /\ r[1] = r[Len(r)] /\ r[1] \in {"'", "\""}
    THEN SubSeq(r, 2, Len(r) - 1)
    ELSE r

\* needle in haystack, for strings
Contains(haystack, needle) ==
    \E i \in 0..(Len(haystack) - Len(needle)) :
        \A j \in 1..Len(needle) : haystack[i + j] = needle[j]

\* re.search(pattern, text) for patterns of literal characters and ".";
\* a pattern with an unclosed "[" or "(" does not compile
PatternCompiles(pattern) == \A i \in 1..Len(pattern) : pattern[i] \notin {"[", "("}

re_search(pattern, text) ==
    \E i \in 0..(Len(text) - Len(pattern)) :
        \A j \in 1..Len(pattern) : pattern[j] = "." \/ text[i + j] = pattern[j]

\* type_map of the "is" operator: the type name, lower-cased names only
TypeName(chars) ==
    CASE chars = <<"s", "t", "r", "i", "n", "g">> -> "str"
      [] chars = <<"s", "t", "r">> -> "str"
      [] chars = <<"n", "u", "m", "b", "e", "r">> -> "number"
      [] chars = <<"i", "n", "t">> -> "int"
      [] chars = <<"i", "n", "t", "e", "g", "e", "r">> -> "int"
      [] chars = <<"f", "l", "o", "a", "t">> -> "float"
      [] chars = <<"b", "o", "o", "l">> -> "bool"
      [] chars = <<"b", "o", "o", "l", "e", "a", "n">> -> "bool"
      [] chars = <<"l", "i", "s", "t">> -> "list"
      [] chars = <<"a", "r", "r", "a", "y">> -> "list"
      [] chars = <<"d", "i", "c", "t">> -> "dict"
      [] chars = <<"o", "b", "j", "e", "c", "t">> -> "dict"
      [] chars = <<"n", "u", "l", "l">> -> "NoneType"
      [] chars = <<"n", "o", "n", "e">> -> "NoneType"
      [] OTHER -> "unknown"

\* isinstance(value, type_map[name]); bool is a subclass of int
IsInstance(v, name) ==
    CASE name = "number" -> v.t \in {"int", "float", "bool"}
      [] name = "int" -> v.t \in {"int", "bool"}
      [] OTHER -> v.t = name

\* len(actual) if hasattr(actual, "__len__") else 0
LengthOf(v) ==
    CASE v.t = "str" -> Len(v.s)
      [] v.t = "list" -> v.n
      [] v.t = "dict" -> Cardinality(DOMAIN v.m)
      [] OTHER -> 0

CompareChars == {">", "<", "=", "!"}

\* re.match(r"([><=!]+)\s*(\d+)", expected): the operator characters, the
\* digits after them, or no match
LengthParts(expected) ==
    LET opEnd == CHOOSE i \in 0..Len(expected) :
                    /\ \A j \in 1..i : expected[j] \in CompareChars
                    /\ i < Len(expected) => expected[i + 1] \notin CompareChars
        numStart == CHOOSE i \in (opEnd + 1)..(Len(expected) + 1) :
                    /\ \A j \in (opEnd + 1)..(i - 1) : expected[j] = " "
                    /\ i <= Len(expected) => expected[i] # " "
        numEnd == CHOOSE i \in (numStart - 1)..Len(expected) :
                    /\ \A j \in numStart..i : expected[j] \in Digits
                    /\ i < Len(expected) => expected[i + 1] \notin Digits
    IN  [matched |-> opEnd > 0 /\ numEnd >= numStart,
         op |-> SubSeq(expected, 1, opEnd),
         val |-> DigitsValue(SubSeq(expected, numStart, numEnd))]

\* the comparison lambdas of lines 290-297 and 309-314
Compare(op, a, b) ==
    CASE op = <<">">> -> a > b
      [] op = <<"<">> -> a < b
      [] op = <<">", "=">> -> a >= b
      [] op = <<"<", "=">> -> a <= b
      [] op = <<"=", "=">> -> a = b
      [] op = <<"!", "=">> -> a # b
      [] OTHER -> FALSE

OpChars(op) ==
    CASE op = ">" -> <<">">> [] op = "<" -> <<"<">>
      [] op = ">=" -> <<">", "=">> [] OTHER -> <<"<", "=">>

Verdict(passed, message) == [raised |-> "", passed |-> passed, message |-> message]
Propagates(exc) == [raised |-> exc.s[1], passed |-> FALSE, message |-> ""]

\* actual == expected for an actual that was not coerced: expected is a str
PyEquals(actual, expected) == actual.t = "str" /\ actual.s = expected

LengthOps == {<<">">>, <<"<">>, <<">", "=">>, <<"<", "=">>, <<"=", "=">>, <<"!", "=">>}

\* the operands compared as given, never as numbers
Coerced_Never(op, actual, expected) == FALSE

\* lines 223-233: both operands become floats when both convert
Coerced(op, actual, expected) ==
    /\ op \in {"==", "!=", ">", "<", ">=", "<="}
    /\ actual.t # "NoneType"
    /\ ToFloat(actual).t = "float"
    /\ ParseFloat(expected).t = "float"

\* float(None), which raises
NullAsNumber_Unconverted == Raised("TypeError")

\* line 307: actual_num = float(actual) if actual is not None else 0
NullAsNumber == FloatValue(0)

\* not contains failing on a falsy value, as contains does
NotContainsWhenFalsy_Fails == FALSE

\* line 249: expected not in str(actual) if actual else True
NotContainsWhenFalsy == TRUE

\* lines 235-320: the operator applied to the resolved value and the
\* unquoted, interpolated right-hand side
ApplyOperator(op, actual, expected) ==
    CASE op = "==" ->
            Verdict(IF Coerced(op, actual, expected)
                    THEN ToFloat(actual).n = ParseFloat(expected).n
                    ELSE PyEquals(actual, expected),
                    "actual=, expected=")
      [] op = "!=" ->
            Verdict(IF Coerced(op, actual, expected)
                    THEN ToFloat(actual).n # ParseFloat(expected).n
                    ELSE ~PyEquals(actual, expected),
                    "actual=, should not equal")
      [] op = "contains" ->
            LET passed == IF Truthy(actual)
                          THEN Contains(ToStr(actual), expected) ELSE FALSE
            IN  Verdict(passed, IF passed THEN "contains" ELSE "does not contain")
      [] op = "not contains" ->
            LET passed == IF Truthy(actual)
                          THEN ~Contains(ToStr(actual), expected)
                          ELSE NotContainsWhenFalsy
            IN  Verdict(passed, IF passed THEN "does not contain" ELSE "contains")
      [] op = "matches" ->
            IF ~Truthy(actual) THEN Verdict(FALSE, "does not match pattern")
            ELSE IF ~PatternCompiles(expected)
                 THEN Verdict(FALSE, "Invalid regex pattern")
            ELSE LET passed == re_search(expected, ToStr(actual))
                 IN  Verdict(passed, IF passed THEN "matches pattern"
                                     ELSE "does not match pattern")
      [] op = "is" ->
            IF TypeName(expected) = "unknown" THEN Verdict(FALSE, "Unknown type")
            ELSE Verdict(IsInstance(actual, TypeName(expected)), "type is, expected")
      [] op = "length" ->
            LET parts == LengthParts(expected) IN
            IF parts.matched /\ parts.op \in LengthOps
            THEN Verdict(Compare(parts.op, LengthOf(actual), parts.val),
                         "length=, expected")
            ELSE Verdict(FALSE, "Invalid length expression")
      [] op \in {">", "<", ">=", "<="} ->
            LET a == IF actual.t = "NoneType" THEN NullAsNumber ELSE ToFloat(actual)
                b == ParseFloat(expected)
            IN  IF a.t = "float" /\ b.t = "float"
                THEN Verdict(Compare(OpChars(op), a.n, b.n), "actual=, expected")
                ELSE Verdict(FALSE, "Cannot compare")
      [] OTHER -> Verdict(FALSE, "Unknown operator")

\* ExpressionEvaluator.evaluate
evaluate(c, e) ==
    IF ~PatternMatches(e) THEN Verdict(FALSE, "Invalid expression syntax")
    ELSE LET actual == resolve_variable(c, RefTable[e.head]) IN
         IF actual.t = "raised" THEN Propagates(actual)
         ELSE IF e.op = "exists"
              THEN Verdict(actual.t # "NoneType",
                           IF actual.t # "NoneType" THEN "exists" ELSE "does not exist")
         ELSE IF e.op = "not exists"
              THEN Verdict(actual.t = "NoneType",
                           IF actual.t = "NoneType" THEN "does not exist" ELSE "exists")
         ELSE LET expected == interpolate(c, Unquote(e.raw)) IN
              IF expected.t = "raised" THEN Propagates(expected)
              ELSE ApplyOperator(e.op, actual, expected.s)

\* --------------------------------------------- expressions: the inputs
\* values a context holds under state.x
StrSet == {<<>>, <<"a">>, <<"0">>, <<"1">>, <<"a", "b">>, <<"1", ".", "0">>, <<"0", "a", "1">>}

ValueSet ==
    {NoneValue, BoolValue(TRUE), ListValue(0), ListValue(2),
     DictValue([y |-> IntValue(1)])}
    \cup {IntValue(i) : i \in 0..MaxInt}
    \cup {StrValue(w) : w \in StrSet}

\* the last step result: exit_code, stdout, stderr
LastSet ==
    {DictValue([exit_code |-> IntValue(0), stdout |-> StrValue(JsonText),
                stderr |-> StrValue(<<>>)]),
     DictValue([exit_code |-> IntValue(1), stdout |-> NoneValue,
                stderr |-> StrValue(<<"a">>)]),
     DictValue([exit_code |-> IntValue(MaxInt), stdout |-> StrValue(<<"a", "b">>),
                stderr |-> StrValue(<<>>)])}

\* a context: the namespaces, with or without last and fixtures_dir, the
\* state of the file the file references name, the environment variable
Context(config, state, capt, optional, file) ==
    [ns |-> Merge([config |-> DictValue(config), state |-> DictValue(state),
                   captured |-> DictValue(capt)], optional),
     file |-> file,
     env |-> IF file = "text" THEN StrValue(<<"a">>) ELSE NoneValue]

FromCaptured == StrValue(<<"c">>)
FromState == StrValue(<<"s">>)
FromConfig == StrValue(<<"g">>)

ContextSet ==
    \* every value under state.x
    {Context(EmptyDict, [x |-> v], EmptyDict, EmptyDict, "missing") : v \in ValueSet}
    \* every last step result
    \cup {Context(EmptyDict, [x |-> IntValue(1)], EmptyDict, [last |-> l], "missing") :
            l \in LastSet}
    \* the same name in several namespaces
    \cup {Context(config, state, capt, optional, "missing") :
            config \in {EmptyDict, [x |-> DictValue([y |-> FromConfig])]},
            state \in {EmptyDict, [x |-> FromState]},
            capt \in {EmptyDict, [x |-> FromCaptured], [stdout |-> FromCaptured],
                          [x |-> FromCaptured, stdout |-> FromCaptured]},
            optional \in {EmptyDict,
                          [last |-> DictValue([exit_code |-> IntValue(0),
                                               stdout |-> StrValue(<<"a", "b">>)])]}}
    \* the file in each of its states
    \cup {Context(EmptyDict, EmptyDict, EmptyDict, optional, file) :
            optional \in {EmptyDict, [fixtures_dir |-> StrValue(<<"d">>)]},
            file \in {"missing", "unreadable", "text", "json"}}

EmptyContext == Context(EmptyDict, EmptyDict, EmptyDict, EmptyDict, "missing")

\* the references resolve_variable is called with
RefSet ==
    {RefTable[a] : a \in DOMAIN RefTable}
    \cup {Ref("config.", <<"x", "y">>, ""), Ref("state.", <<"x", "y">>, ""),
          Ref("params.", <<"p">>, ""), Ref("json:", <<>>, "$"), Ref("json:", <<>>, "$["),
          Ref("jsonfile:", <<>>, "$.a"), Ref("file:", <<>>, "/f"),
          Ref("fixture:", <<>>, "f"), Ref("env:", <<>>, "HOME"),
          Ref("", <<"x">>, ""), Ref("", <<"stdout">>, ""), Ref("", <<"x", "y">>, "")}

\* the texts interpolate is called with
TextSet ==
    {<<"a", "b">>, <<"${state.x}">>, <<"a", "${state.x}", "b">>, <<"${state.zz}">>,
     <<"a", "${state.zz}", "${state.x}">>, <<"${json:$.a}", "a">>,
     <<"$", "{", "}">>, <<"${last.exit_code}", "${state.zz}">>}

LitAlphabet == {"0", "1", "a"}

\* the right-hand sides of the expressions: every literal of up to MaxLit
\* characters, quoted literals, type names, length conditions, patterns
\* and a reference
RawSet ==
    UNION {[1..n -> LitAlphabet] : n \in 1..MaxLit}
    \cup {<<>>, <<"1", ".", "0">>, <<"'", "a", "'">>, <<"\"", "0", "\"">>, <<" ", "1", " ">>, <<"'">>,
          <<"i", "n", "t">>, <<"s", "t", "r">>, <<"n", "u", "l", "l">>,
          <<">", "0">>, <<"=", "=", " ", "1">>, <<"=", "1">>, <<">">>,
          <<"[", "a">>, <<"${last.exit_code}">>, <<"${json:$.a}">>}

\* the expressions evaluate is called with: a reference or a bare word,
\* an operator or a word that is none, and a right-hand side
ExprSet ==
    {Expr(head, op, raw) :
        head \in {"${state.x}", "${last.exit_code}", "${json:$.a}", "x"},
        op \in Operators \cup {"not  exists", "equals"},
        raw \in RawSet}

NoVerdict == Verdict(FALSE, "")
NoOutcome ==
    [fn |-> "none", ref |-> Ref("", <<>>, ""), text |-> <<>>, expr |-> Expr("", "", <<>>),
     value |-> NoneValue, verdict |-> NoVerdict]

\* a caller resolves a reference
CallResolve(r) ==
    /\ outcome = NoOutcome
    /\ outcome' = [NoOutcome EXCEPT !.fn = "resolve_variable", !.ref = r,
                                    !.value = resolve_variable(context, r)]
    /\ UNCHANGED <<runVars, storeVars, clientVars, flakyVars, stepVars, context>>

\* a caller interpolates a text
CallInterpolate(text) ==
    /\ outcome = NoOutcome
    /\ outcome' = [NoOutcome EXCEPT !.fn = "interpolate", !.text = text,
                                    !.value = interpolate(context, text)]
    /\ UNCHANGED <<runVars, storeVars, clientVars, flakyVars, stepVars, context>>

\* a caller evaluates an assertion expression
CallEvaluate(e) ==
    /\ outcome = NoOutcome
    /\ outcome' = [NoOutcome EXCEPT !.fn = "evaluate", !.expr = e,
                                    !.verdict = evaluate(context, e)]
    /\ UNCHANGED <<runVars, storeVars, clientVars, flakyVars, stepVars, context>>

\* the caller has the result; the evaluator keeps nothing of the call
CallReturn ==
    /\ outcome # NoOutcome
    /\ outcome' = NoOutcome
    /\ UNCHANGED <<runVars, storeVars, clientVars, flakyVars, stepVars, context>>

\* ------------------------------------------------- repository statistics
\* test_id values of the rows of test_results
RowTests == {"t1", "t2"}

\* status values of the rows
RowStatuses == {"running", "passed", "failed", "crashed"}

Limits == {1, DefaultLimit}

RowCount == [i \in RowTests |-> [st \in RowStatuses |-> 0]]

\* COUNT(*) of the group of test_id i
TotalRuns(i) ==
    table[i]["running"] + table[i]["passed"] + table[i]["failed"] + table[i]["crashed"]

\* SUM(CASE WHEN status = 'passed' THEN 1 ELSE 0 END)
Passes(i) == table[i]["passed"]

\* a count of failures that takes every row that did not pass
Failures_NotPassed(i) == table[i]["failed"] + table[i]["crashed"]

\* SUM(CASE WHEN status = 'failed' THEN 1 ELSE 0 END)
Failures(i) == table[i]["failed"]

\* GROUP BY test_id HAVING passes > 0 AND failures > 0
FlakyGroups ==
    {[test_id |-> i, total_runs |-> TotalRuns(i), passes |-> Passes(i),
      failures |-> Failures(i)] :
        i \in {j \in RowTests : TotalRuns(j) > 0 /\ Passes(j) > 0 /\ Failures(j) > 0}}

\* ORDER BY failures DESC LIMIT ?: the first limit groups of the ordering,
\* groups with equal failures in either order
get_flaky_tests(limit) ==
    {R \in SUBSET FlakyGroups :
        /\ Cardinality(R) = IF Cardinality(FlakyGroups) < limit
                            THEN Cardinality(FlakyGroups) ELSE limit
        /\ \A a \in R, b \in FlakyGroups \ R : a.failures >= b.failures}

\* a run leaves a row for test i with status st
InsertRow(i, st) ==
    /\ TotalRuns("t1") + TotalRuns("t2") < MaxRows
    /\ table' = [table EXCEPT ![i][st] = @ + 1]
    /\ UNCHANGED <<runVars, storeVars, clientVars, exprVars, stepVars, flaky>>

\* the dashboard asks for the flaky tests
QueryFlaky(limit) ==
    /\ \E R \in get_flaky_tests(limit) : flaky' = R
    /\ UNCHANGED <<runVars, storeVars, clientVars, exprVars, stepVars, table>>

FlakyIdle ==
    /\ table = RowCount
    /\ flaky = {}

ExprIdle ==
    /\ context = EmptyContext
    /\ outcome = NoOutcome

\* ------------------------------------------------ the steps of one test
\* The phases of a test, in the order they run.
Phases == <<"setup", "main", "teardown">>

\* A test definition: for each phase the declared steps, each given by the
\* success flag its handler will report; the declared assertions, each
\* given by its verdict; and the stop-on-fail policy.
Outcomes == UNION {[1..n -> BOOLEAN] : n \in 0..MaxSteps}

PlanSet ==
    [setup : Outcomes, main : Outcomes, teardown : Outcomes,
     asserts : {<<>>, <<TRUE>>, <<FALSE>>}, stop : BOOLEAN]

NoPlan == [setup |-> <<>>, main |-> <<>>, teardown |-> <<>>, asserts |-> <<>>, stop |-> FALSE]

Entry(phase, step, status) == [phase |-> phase, step |-> step, status |-> status]

\* the result a handler returns for a step: the exit code, and the output
\* that tells the steps apart
HandlerResult(phase, step, success) ==
    [exit_code |-> IF success THEN 0 ELSE 1,
     stdout |-> [phase |-> phase, step |-> step],
     success |-> success]

\* last before any step has completed
NoStepResult == HandlerResult("none", 0, TRUE)

\* a step is RUNNING: dispatched, its handler not yet returned
StepRunning == tlog # <<>> /\ tlog[Len(tlog)].status = "running"

\* last made to name the step at its dispatch, before its handler returns
LastAtDispatch_Early(phase, step) == HandlerResult(phase, step, TRUE)

\* last while a step is dispatched: still that of the step before it
LastAtDispatch(phase, step) == tlast

\* PENDING -> RUNNING, immediately before the handler is dispatched
StepBegin ==
    /\ tphase \in {"setup", "main", "teardown"}
    /\ ~StepRunning
    /\ tstep <= Len(tplan[tphase])
    /\ tlog' = Append(tlog, Entry(tphase, tstep, "running"))
    /\ tlast' = LastAtDispatch(tphase, tstep)
    /\ UNCHANGED <<runVars, storeVars, clientVars, flakyVars, exprVars, tplan, tphase, tstep>>

\* the phase entered after a step failed in phase under stop-on-fail,
\* with teardown skipped
AfterFailure_NoTeardown(phase) == IF phase = "teardown" THEN "teardown" ELSE "done"

\* the phase entered after a step failed in phase under stop-on-fail: the
\* remaining setup and main steps are aborted, teardown still runs
AfterFailure(phase) == "teardown"

\* RUNNING -> PASSED or FAILED on handler return, by the handler's
\* success flag
StepEnd ==
    /\ StepRunning
    /\ LET success == tplan[tphase][tstep]
           aborts == ~success /\ tplan.stop /\ tphase # "teardown"
       IN  /\ tlog' = [tlog EXCEPT ![Len(tlog)].status =
                            IF success THEN "passed" ELSE "failed"]
           /\ tphase' = IF aborts THEN AfterFailure(tphase) ELSE tphase
           /\ tstep' = IF aborts THEN 1 ELSE tstep + 1
           /\ tlast' = HandlerResult(tphase, tstep, success)
    /\ UNCHANGED <<runVars, storeVars, clientVars, flakyVars, exprVars, tplan>>

\* every step of the phase has completed: on to the next phase, from
\* main to the assertions
PhaseEnd ==
    /\ tphase \in {"setup", "main", "teardown"}
    /\ ~StepRunning
    /\ tstep > Len(tplan[tphase])
    /\ tphase' = CASE tphase = "setup" -> "main"
                   [] tphase = "main" -> "assertions"
                   [] OTHER -> "done"
    /\ tstep' = 1
    /\ UNCHANGED <<runVars, storeVars, clientVars, flakyVars, exprVars, tplan, tlog, tlast>>

\* after the main phase: all declared assertions are evaluated against
\* the context the steps produced
EvaluateAssertions ==
    /\ tphase = "assertions"
    /\ tlog' = tlog \o [i \in 1..Len(tplan.asserts) |->
                            Entry("assertions", i,
                                  IF tplan.asserts[i] THEN "passed" ELSE "failed")]
    /\ tphase' = "teardown"
    /\ tstep' = 1
    /\ UNCHANGED <<runVars, storeVars, clientVars, flakyVars, exprVars, tplan, tlast>>

StepIdle ==
    /\ tplan = NoPlan
    /\ tphase = "none"
    /\ tstep = 0
    /\ tlog = <<>>
    /\ tlast = NoStepResult

\* no part of the engine beside the one under study is active
\* ------------------------------------------------------- RunnerClient
\* What a request meets: no server at the address, no answer within
\* self._timeout, an answer with an error status, or an answer.
Conditions == {"unreachable", "timeout", "status404", "status500", "ok"}

\* JSON objects a server answers with
BodySet == {EmptyDict, [status |-> "ok"], [status |-> "down"], [value |-> "v"], [a |-> "1"]}

\* what a RunnerClient method gives its caller: a value, or an exception
ClientNone == [raised |-> "", t |-> "None", b |-> FALSE, d |-> EmptyDict, s |-> ""]
ClientBool(b) == [ClientNone EXCEPT !.t = "bool", !.b = b]
ClientDict(d) == [ClientNone EXCEPT !.t = "dict", !.d = d]
ClientStr(s) == [ClientNone EXCEPT !.t = "str", !.s = s]
ClientRaised(name) == [ClientNone EXCEPT !.raised = name]

\* requests.get / requests.post followed by response.raise_for_status():
\* the exception raised, if any; each is a requests.RequestException
request(n) ==
    CASE n = "unreachable" -> "ConnectionError"
      [] n = "timeout" -> "Timeout"
      [] n \in {"status404", "status500"} -> "HTTPError"
      [] OTHER -> ""

\* an except clause that names requests.ConnectionError alone
Caught_ConnectionOnly(exc) == exc = "ConnectionError"

\* except requests.RequestException
Caught(exc) == exc \in {"ConnectionError", "Timeout", "HTTPError"}

\* RunnerClient._get
_get(n, json) ==
    LET exc == request(n) IN
    IF exc = "" THEN ClientDict(json)
    ELSE IF Caught(exc) THEN ClientNone ELSE ClientRaised(exc)

\* RunnerClient._post
_post(n) ==
    LET exc == request(n) IN
    IF exc = "" THEN ClientBool(TRUE)
    ELSE IF Caught(exc) THEN ClientBool(FALSE) ELSE ClientRaised(exc)

\* a dict is falsy when empty, None is falsy
ClientTruthy(r) == r.t = "dict" /\ r.d # EmptyDict

\* RunnerClient.health
health(n, json) ==
    LET result == _get(n, json) IN
    IF result.raised # "" THEN result
    ELSE ClientBool(result.t # "None" /\ DictGet(result.d, "status", "") = "ok")

\* RunnerClient.get_config(path)
get_config(n, json) ==
    LET result == _get(n, json) IN
    IF result.raised # "" THEN result
    ELSE IF ClientTruthy(result) /\ "value" \in DOMAIN result.d
         THEN ClientStr(result.d["value"]) ELSE ClientNone

\* self._get(path) or {}
GetOrEmpty(n, json) ==
    LET result == _get(n, json) IN
    IF result.raised # "" THEN result
    ELSE IF ClientTruthy(result) THEN result ELSE ClientDict(EmptyDict)

ReadsNone == {"get_config", "get_config_all", "get_routine"}
ReadsDict == {"get_state", "get_progress", "get_context", "get_all_routines"}
Writes == {"set_state", "update_state", "capture", "progress", "log"}
ClientOps == ReadsNone \cup ReadsDict \cup Writes \cup {"health"}

\* the RunnerClient method op, called when requests meet n
ClientResult(op, n, json) ==
    CASE op = "health" -> health(n, json)
      [] op = "get_config" -> get_config(n, json)
      [] op \in {"get_config_all", "get_routine"} -> _get(n, json)
      [] op \in ReadsDict -> GetOrEmpty(n, json)
      [] OTHER -> _post(n)

NoCall == [op |-> "none", result |-> ClientNone]

\* a RunnerClient method is called and returns or raises
ClientCall(op) ==
    /\ cres = NoCall
    /\ cres' = [op |-> op, result |-> ClientResult(op, net, answer)]
    /\ UNCHANGED <<runVars, storeVars, flakyVars, exprVars, stepVars, net, answer>>

\* the caller has the outcome
ClientReturn ==
    /\ cres # NoCall
    /\ cres' = NoCall
    /\ UNCHANGED <<runVars, storeVars, flakyVars, exprVars, stepVars, net, answer>>

ClientIdle ==
    /\ net = "ok"
    /\ answer = EmptyDict
    /\ cres = NoCall

EngineIdle == FlakyIdle /\ ExprIdle /\ StepIdle /\ ClientIdle

\* main, lines 725-778: the run and its PENDING test records exist and the
\* tests are handed to run_docker_mode or run_local_mode
RunInit ==
    /\ mode \in {"docker", "local"}
    /\ stop_on_fail \in BOOLEAN
    /\ IF mode = "docker"
       THEN /\ max_workers \in 0..MaxWorkers
            /\ test_timeout \in Timeouts
            /\ kind \in [Tests -> DockerKinds]
       ELSE /\ max_workers = 1
            /\ test_timeout = DefaultTimeout
            /\ kind \in [Tests -> LocalKinds]
    /\ main = "startup"
    /\ idx = 1
    /\ submitted = {}
    /\ pc = [t \in Tests |-> "pending"]
    /\ work = [t \in Tests |-> "idle"]
    /\ ret = [t \in Tests |-> NoResult]
    /\ collected = {}
    /\ results = <<>>
    /\ stop_requested = FALSE
    /\ dbStatus = [t \in Tests |-> "pending"]
    /\ dbError = [t \in Tests |-> NoError]
    /\ sse = [t \in Tests |-> "none"]
    /\ runStatus = "running"
    /\ exitCode = -1

NoFaults == [t \in Tests |-> "none"]

\* the persistence collaborator works
Init ==
    /\ RunInit
    /\ dbFault = NoFaults
    /\ api_server = "running"
    /\ StoreIdle
    /\ EngineIdle

\* the run started with the control-plane server already running, coming
\* up in time, or not coming up within the timeout of ensure_api_server
StartInit ==
    /\ RunInit
    /\ dbFault = NoFaults
    /\ api_server \in {"running", "started", "unreachable"}
    /\ StoreIdle
    /\ EngineIdle

\* the persistence collaborator fails for at most one test of the run: its
\* terminal update_test_status raises, or its emit_test_completed does
FaultInit ==
    /\ RunInit
    /\ \/ dbFault = NoFaults
       \/ \E t \in Tests, f \in {"update", "emit"} :
              dbFault = [NoFaults EXCEPT ![t] = f]
    /\ api_server = "running"
    /\ StoreIdle
    /\ EngineIdle

Next ==
    \/ Startup
    \/ \E t \in Tests : SeqBegin(t)
    \/ \E t \in Tests : SeqFinish(t)
    \/ SeqReturn
    \/ ParSubmitAll
    \/ \E t \in Tests : ParBegin(t)
    \/ \E t \in Tests : ParFinish(t)
    \/ \E t \in Tests : ParCollect(t)
    \/ ParReturn
    \/ \E t \in Tests : LocalBegin(t)
    \/ \E t \in Tests : LocalFinish(t)
    \/ LocalReturn
    \/ \E t \in Tests : WorkReturn(t)
    \/ \E t \in Tests : TimeoutFires(t)
    \/ MainExit

Spec == Init /\ [][Next]_vars

\* Every thread that can take a step eventually takes one; a hanging
\* container run has no step to take.
FairSpec == Spec /\ WF_vars(Next)

\* The run with a failing persistence collaborator.
FaultSpec == FaultInit /\ [][Next]_vars

\* The run with every outcome of the server start.
StartSpec == StartInit /\ [][Next]_vars

\* The statistics queries over a growing test_results table.
FlakyInit ==
    /\ mode = "docker" /\ max_workers = 1 /\ stop_on_fail = FALSE
    /\ test_timeout = DefaultTimeout
    /\ kind = [t \in Tests |-> "pass"]
    /\ dbFault = NoFaults
    /\ api_server = "running"
    /\ RunInit
    /\ StoreIdle
    /\ EngineIdle

FlakyNext ==
    \/ \E i \in RowTests, st \in RowStatuses : InsertRow(i, st)
    \/ \E limit \in Limits : QueryFlaky(limit)

FlakySpec == FlakyInit /\ [][FlakyNext]_vars

\* The expression evaluator over every context of ContextSet.
ExprInit ==
    /\ mode = "docker" /\ max_workers = 1 /\ stop_on_fail = FALSE
    /\ test_timeout = DefaultTimeout
    /\ kind = [t \in Tests |-> "pass"]
    /\ dbFault = NoFaults
    /\ api_server = "running"
    /\ RunInit
    /\ StoreIdle
    /\ FlakyIdle
    /\ StepIdle
    /\ ClientIdle
    /\ context \in ContextSet
    /\ outcome = NoOutcome

ExprNext ==
    \/ \E r \in RefSet : CallResolve(r)
    \/ \E text \in TextSet : CallInterpolate(text)
    \/ \E e \in ExprSet : CallEvaluate(e)
    \/ CallReturn

ExprSpec == ExprInit /\ [][ExprNext]_vars

\* The steps of one test, for every test definition of PlanSet.
StepInit ==
    /\ mode = "docker" /\ max_workers = 1 /\ stop_on_fail = FALSE
    /\ test_timeout = DefaultTimeout
    /\ kind = [t \in Tests |-> "pass"]
    /\ dbFault = NoFaults
    /\ api_server = "running"
    /\ RunInit
    /\ StoreIdle
    /\ FlakyIdle
    /\ ExprIdle
    /\ ClientIdle
    /\ tplan \in PlanSet
    /\ tphase = "setup"
    /\ tstep = 1
    /\ tlog = <<>>
    /\ tlast = NoStepResult

StepNext ==
    \/ StepBegin
    \/ StepEnd
    \/ PhaseEnd
    \/ EvaluateAssertions

StepSpec == StepInit /\ [][StepNext]_vars

\* The RunnerClient against a server in each condition.
ClientInit ==
    /\ mode = "docker" /\ max_workers = 1 /\ stop_on_fail = FALSE
    /\ test_timeout = DefaultTimeout
    /\ kind = [t \in Tests |-> "pass"]
    /\ dbFault = NoFaults
    /\ api_server = "running"
    /\ RunInit
    /\ StoreIdle
    /\ FlakyIdle
    /\ ExprIdle
    /\ StepIdle
    /\ net \in Conditions
    /\ answer \in BodySet
    /\ cres = NoCall

ClientNext ==
    \/ \E op \in ClientOps : ClientCall(op)
    \/ ClientReturn

ClientSpec == ClientInit /\ [][ClientNext]_vars

\* The control plane while a run is under way: the endpoints touch none of
\* the run's variables, which are taken as they are when the run starts
\* with its default settings.
StoreInit ==
    /\ mode = "docker" /\ max_workers = 1 /\ stop_on_fail = FALSE
    /\ test_timeout = DefaultTimeout
    /\ kind = [t \in Tests |-> "pass"]
    /\ dbFault = NoFaults
    /\ api_server = "running"
    /\ RunInit
    /\ StoreIdle
    /\ EngineIdle

StoreNext ==
    \/ \E c \in Clients : Request(c)
    \/ \E c \in Clients : update_state(c)
    \/ \E c \in Clients : capture(c)
    \/ \E c \in Clients : capture_return(c)
    \/ \E c \in Clients : progress(c)
    \/ \E c \in Clients : get_state(c)
    \/ \E c \in Clients : get_progress(c)
    \/ \E c \in Clients : get_context(c)

StoreSpec == StoreInit /\ [][StoreNext]_vars

\* ---------------------------------------------------------- run outcomes
Ended(t) == pc[t] \in {"done", "raised"}
Parallel == mode = "docker" /\ max_workers # 1
Sequential == mode = "local" \/ (mode = "docker" /\ max_workers = 1)
PassedCount == Cardinality({i \in 1..Len(results) : results[i].passed})
FailedCount == Cardinality({i \in 1..Len(results) : ~results[i].passed})
Entries(t) == {i \in 1..Len(results) : results[i].test_id = t}

\* The totals the for loop of lines 1101-1116 produces for the test set:
\* it walks the tests in order, stops after a failed result when
\* stop_on_fail is set, and yields nothing (ok = FALSE) when a test raises
\* out of the loop or never returns.
RECURSIVE SeqTotals(_)
SeqTotals(i) ==
    IF i > NumTests THEN [passed |-> 0, failed |-> 0, ok |-> TRUE]
    ELSE IF kind[i] = "pass"
    THEN LET r == SeqTotals(i + 1)
         IN [passed |-> r.passed + 1, failed |-> r.failed, ok |-> r.ok]
    ELSE IF kind[i] \in {"fail", "slow"}
    THEN IF stop_on_fail
         THEN [passed |-> 0, failed |-> 1, ok |-> TRUE]
         ELSE LET r == SeqTotals(i + 1)
              IN [passed |-> r.passed, failed |-> r.failed + 1, ok |-> r.ok]
    ELSE [passed |-> 0, failed |-> 0, ok |-> FALSE]

\* SeqTotals is what the sequential loop of the model returns.
SeqTotalsAgree ==
    (mode = "docker" /\ max_workers = 1 /\ main = "returned") =>
        /\ SeqTotals(1).ok
        /\ PassedCount = SeqTotals(1).passed
        /\ FailedCount = SeqTotals(1).failed

\* The worker pool never runs more units than it has threads.
PoolBound == mode = "docker" => Cardinality(Executing) <= PoolSize

\* ------------------------------------------------------------------ C1
\* C1: in docker mode a test whose container run exceeds the timeout is
\* never recorded CRASHED, and when execute_single_test ends for it the
\* test is FAILED, its result has passed = FALSE, and the error message is
\* the timeout message carrying the configured number of seconds.
C1_TimeoutIsFailed ==
    \A t \in Tests :
        (mode = "docker" /\ kind[t] \in {"slow", "hang"}) =>
            /\ dbStatus[t] # "crashed"
            /\ sse[t] # "crashed"
            /\ Ended(t) =>
                /\ pc[t] = "done"
                /\ dbStatus[t] = "failed"
                /\ ret[t].passed = FALSE
                /\ ret[t].error.text = TimeoutMessage(0).text
                /\ ret[t].error.arg = test_timeout
                /\ dbError[t] = ret[t].error

C1_Witness ==
    \E t \in Tests :
        /\ mode = "docker" /\ kind[t] = "slow" /\ pc[t] = "done"
        /\ dbStatus[t] = "failed" /\ ret[t].error.arg = test_timeout

\* ------------------------------------------------------------------ C2
\* C2: in docker mode a test whose container wait raised an exception other
\* than the timeout ends with status CRASHED and a result with
\* passed = FALSE, never FAILED or PASSED.
C2_CrashIsCrashed ==
    \A t \in Tests :
        (mode = "docker" /\ kind[t] = "raise" /\ Ended(t)) =>
            /\ dbStatus[t] = "crashed"
            /\ ret[t].test_id = t
            /\ ret[t].passed = FALSE

\* ------------------------------------------------------------------ C3
\* C3: once the timeout of a test has elapsed the test reaches the
\* terminal status FAILED, also when its container run never returns.
C3_TimeoutReachesFailed ==
    \A t \in Tests : (pc[t] = "timedout") ~> (dbStatus[t] = "failed")

\* ------------------------------------------------------------------ C4
\* C4: when a run returns (taken without stop_on_fail, so that every
\* selected test is run), every test has a terminal status, exactly one
\* entry in the results, and an error message unless it PASSED.
C4_OneTerminalStatusEach ==
    (main = "returned" /\ ~stop_on_fail) =>
        \A t \in Tests :
            /\ dbStatus[t] \in {"passed", "failed", "crashed"}
            /\ Cardinality(Entries(t)) = 1
            /\ dbStatus[t] # "passed" => dbError[t] # NoError

\* ------------------------------------------------------------------ C5
\* C5: without stop_on_fail a failure, timeout or crash of one test never
\* aborts the run, and when the run returns every test whose own run
\* passes, fails or times out has the status of its own outcome.
C5_FailureContained ==
    ~stop_on_fail =>
        /\ main # "aborted"
        /\ main = "returned" =>
            \A t \in Tests :
                /\ kind[t] = "pass" => dbStatus[t] = "passed"
                /\ kind[t] \in {"fail", "slow"} => dbStatus[t] = "failed"

C7_NoStartAfterFailure ==
    [][(Parallel /\ stop_on_fail /\ stop_requested) =>
          \A t \in Tests :
              /\ pc[t] = "pending" => pc'[t] = "pending"
              /\ pc[t] \in {"waiting", "timedout"} => pc'[t] # "pending"]_vars

\* C7 amended: in parallel mode with stop_on_fail every test was submitted
\* before any result is observed; observing a failed result submits
\* nothing, withdraws nothing and preempts nothing: queued tests stay
\* queued until a worker starts them, and a running test leaves execution
\* only by its own end, after its container run has ended.
C7_FailureCancelsNothing ==
    [][(Parallel /\ stop_on_fail /\ stop_requested') =>
          /\ submitted = Tests /\ submitted' = Tests
          /\ \A t \in Tests :
              /\ pc[t] = "pending" => pc'[t] \in {"pending", "waiting"}
              /\ pc[t] = "waiting" => pc'[t] \in {"waiting", "timedout", "done", "raised"}
              /\ pc[t] = "timedout" => pc'[t] \in {"timedout", "done", "raised"}
              /\ (pc[t] \in {"waiting", "timedout"} /\ Ended(t)') =>
                     work[t] \in {"returned", "raised"}]_vars

C7_Witness ==
    /\ Parallel /\ stop_on_fail /\ stop_requested
    /\ \E t \in Tests : pc[t] = "pending" /\ ENABLED ParBegin(t)
    /\ \E t \in Tests : pc[t] \in {"waiting", "timedout"}

\* ------------------------------------------------------------------ C8
\* C8: in sequential execution tests start in discovery order, one at a
\* time; with stop_on_fail none starts after the first test that did not
\* pass, and without stop_on_fail every test has been started when the run
\* is over.
C8_SequentialOrder ==
    Sequential =>
        /\ Cardinality(Executing) <= 1
        /\ \A t, u \in Tests : (u < t /\ pc[t] # "pending") => Ended(u)
        /\ stop_on_fail =>
              \A t, u \in Tests :
                  (u < t /\ pc[u] = "done" /\ ~ret[u].passed) => pc[t] = "pending"
        /\ (~stop_on_fail /\ main \in {"returned", "exited", "aborted"}) =>
              \A t \in Tests : pc[t] # "pending"

\* ------------------------------------------------------------------ C9
\* C9: in a docker run at most max(1, max_workers) tests are marked
\* RUNNING without a terminal status.
C9_RunningBounded ==
    mode = "docker" =>
        Cardinality({t \in Tests : dbStatus[t] = "running"}) <= PoolSize

\* ------------------------------------------------------------------ C10
\* C10: when the WorkerPool context has been left and run_docker_mode has
\* returned, every submitted unit has finished and no test is RUNNING.
C10_DrainedOnReturn ==
    (Parallel /\ main \in {"returned", "exited"}) =>
        /\ submitted = Tests
        /\ PoolDrained
        /\ \A t \in Tests : dbStatus[t] # "running"

\* ------------------------------------------------------------------ C11
\* C11: a test's timeout fires only while that test's own container run is
\* executing (never while it is queued), the step in which it fires
\* changes nothing of any other test, and whatever terminal status a test
\* has is the one of its own run, whatever the other tests did.
C11_TimeoutIndependent ==
    /\ [](\A t \in Tests :
            /\ dbStatus[t] = "passed" => kind[t] = "pass"
            /\ dbStatus[t] = "failed" => kind[t] \in {"fail", "slow"}
            /\ dbStatus[t] # "crashed")
    /\ [][\A t \in Tests :
            (pc[t] # "timedout" /\ pc'[t] = "timedout") =>
                /\ pc[t] = "waiting" /\ work[t] = "running"
                /\ \A u \in Tests \ {t} :
                      /\ pc'[u] = pc[u] /\ work'[u] = work[u]
                      /\ dbStatus'[u] = dbStatus[u] /\ ret'[u] = ret[u]]_vars

\* a test queued behind a slow one passes after the slow one timed out
C11_Witness ==
    /\ mode = "docker" /\ PoolSize = 1
    /\ kind[1] = "slow" /\ dbStatus[1] = "failed"
    /\ dbError[1] = TimeoutMessage(test_timeout)
    /\ kind[2] = "pass" /\ dbStatus[2] = "passed"

C13_PersistenceFailureContained ==
    /\ main # "aborted"
    /\ \A t \in Tests :
          (dbFault[t] # "none" /\ Ended(t)) =>
              /\ pc[t] = "done"
              /\ ret[t].test_id = t
              /\ ret[t].passed = (kind[t] = "pass")

\* ------------------------------------------------------------------ C14
\* C14: a run that exits with status zero has every test PASSED, and a run
\* in which a test ended FAILED or crashed exits with a non-zero status.
C14_ExitStatusReflectsFailures ==
    main = "exited" =>
        /\ exitCode = 0 => \A t \in Tests : dbStatus[t] = "passed"
        /\ (\E t \in Tests : dbStatus[t] = "failed" \/ work[t] = "raised") =>
              exitCode # 0

\* ------------------------------------------- control-plane store helpers
Keys == UNION {DOMAIN D : D \in DataSet}

\* the server thread of client c ends its handler in this step
Returns(c, op) == req[c].op = op /\ req'[c] = NoReq

Pairs(ns, d) == {<<ns, k, d[k]>> : k \in DOMAIN d}

\* what the progress handler fills in for a missing field
ProgressDefaults ==
    {<<"progress", "step", 0>>, <<"progress", "status", "running">>,
     <<"progress", "message", "">>}

Quiescent == \A c \in Clients : req[c] = NoReq

\* ------------------------------------------------------------------ C15
\* C15: a state post of D for identity T leaves T's state with exactly the
\* old keys and D's keys, D's keys holding D's values and every other key
\* its old value, and applying the same D a second time changes nothing.
C15_StatePostMerges ==
    /\ [](\A i \in Ids, D \in DataSet :
            runtime_update_test_state(runtime_update_test_state(test_state, i, D), i, D)
                = runtime_update_test_state(test_state, i, D))
    /\ [][\A c \in Clients :
            Returns(c, "update_state") =>
                LET old == test_state[req[c].tid]
                    new == test_state'[req[c].tid]
                    D == req[c].data
                IN  /\ DOMAIN new = DOMAIN old \cup DOMAIN D
                    /\ \A k \in DOMAIN D : new[k] = D[k]
                    /\ \A k \in DOMAIN old \ DOMAIN D : new[k] = old[k]
                    /\ (\A k \in DOMAIN D : k \in DOMAIN old /\ old[k] = D[k]) =>
                           new = old]_vars

\* a state that only two partial posts, {a: 1} and {b: 2}, can build
C15_Witness ==
    \E c \in Clients :
        /\ resp[c].op = "update_state"
        /\ test_state[resp[c].tid] = [a |-> 1, b |-> 2]

\* ------------------------------------------------------------------ C16
\* C16: whatever the interleaving of requests, a read of identity B returns
\* only keys and values that were sent to B's own endpoints (or the
\* handler's defaults), a served write is in the store of the identity it
\* was sent to, and a read returns that store as it is.
C16_IsolatedRoundTrip ==
    /\ [](\A c \in Clients :
            /\ resp[c].op = "get_state" =>
                  Pairs("state", resp[c].body) \subseteq written[resp[c].tid]
            /\ resp[c].op = "get_context" =>
                  Pairs("state", resp[c].body.state)
                      \cup Pairs("captured", resp[c].body.captured)
                      \subseteq written[resp[c].tid]
            /\ resp[c].op = "get_progress" =>
                  Pairs("progress", resp[c].body)
                      \subseteq written[resp[c].tid] \cup ProgressDefaults)
    /\ [][\A c \in Clients :
            /\ Returns(c, "update_state") =>
                  \A k \in DOMAIN req[c].data :
                      test_state'[req[c].tid][k] = req[c].data[k]
            /\ Returns(c, "progress") =>
                  \A k \in DOMAIN req[c].data :
                      progress_of'[req[c].tid][k] = req[c].data[k]
            /\ Returns(c, "get_state") =>
                  resp'[c].body = test_state[req[c].tid]
            /\ Returns(c, "get_progress") =>
                  resp'[c].body = progress_of[req[c].tid]
            /\ Returns(c, "get_context") =>
                  /\ resp'[c].body.state = test_state[req[c].tid]
                  /\ resp'[c].body.captured = captured[req[c].tid]]_vars

\* A's state is read back while B holds different data
C16_Witness ==
    \E c \in Clients :
        /\ resp[c].op = "get_state" /\ resp[c].tid = "A"
        /\ resp[c].body # EmptyDict
        /\ test_state["B"] # EmptyDict
        /\ test_state["B"] # test_state["A"]

\* ------------------------------------------------------------------ C17
\* C17: no read of an identity's context is served while a capture post
\* for the same identity is only partly applied.
C17_NoPartlyAppliedPostRead ==
    [][\A c \in Clients :
          Returns(c, "get_context") =>
              \A d \in CapturesInFlight(req[c].tid) :
                  req[d].todo \in {{}, DOMAIN req[d].data}]_vars

\* ------------------------------------------------------------------ C18
\* C18: when a capture post that overlapped no other capture post for its
\* identity has been applied, each of its keys holds its value, and a
\* captured key changes only to the value a capture post for that
\* identity holds for that key.
C18_LastWriteWinsPerKey ==
    /\ [](\A c \in Clients :
            (req[c].op = "capture" /\ req[c].todo = {} /\ req[c].alone) =>
                \A k \in DOMAIN req[c].data :
                    /\ k \in DOMAIN captured[req[c].tid]
                    /\ captured[req[c].tid][k] = req[c].data[k])
    /\ [][\A i \in Ids, k \in Keys :
            (Pairs("captured", captured'[i]) # Pairs("captured", captured[i])
                /\ DictGet(captured'[i], k, 0) # DictGet(captured[i], k, 0)) =>
                \E c \in CapturesInFlight(i) :
                    /\ k \in req[c].todo
                    /\ k \in DOMAIN captured'[i]
                    /\ captured'[i][k] = req[c].data[k]]_vars

\* key a was captured as 1 by an earlier post and holds 2 after this one
C18_Witness ==
    \E c \in Clients :
        /\ req[c].op = "capture" /\ req[c].todo = {} /\ req[c].alone
        /\ req[c].data = [a |-> 2, b |-> 1]
        /\ <<"captured", "a", 1>> \in written[req[c].tid]

\* ------------------------------------------------------------------ C19
\* C19: no step removes a key from an identity's state or captured values,
\* and once every request is served each key ever sent to an identity's
\* state or capture endpoint is present in its store.
C19_KeysNeverShrink ==
    /\ [](Quiescent =>
            \A i \in Ids : \A w \in written[i] :
                /\ w[1] = "state" => w[2] \in DOMAIN test_state[i]
                /\ w[1] = "captured" => w[2] \in DOMAIN captured[i])
    /\ [][\A i \in Ids :
            /\ DOMAIN test_state[i] \subseteq DOMAIN test_state'[i]
            /\ DOMAIN captured[i] \subseteq DOMAIN captured'[i]]_vars

\* a progress post reporting step 0 was served for an identity that has
\* state and captured values
C19_Witness ==
    \E c \in Clients :
        /\ resp[c].op = "progress"
        /\ progress_of[resp[c].tid] # EmptyDict
        /\ progress_of[resp[c].tid].step = 0
        /\ test_state[resp[c].tid] # EmptyDict
        /\ captured[resp[c].tid] # EmptyDict

\* ------------------------------------------------------------------ C20
\* C20: the state, captured values and progress stored under an identity
\* change only in a step that serves a request of that identity's own
\* client.
C20_OnlyOwnClientMutates ==
    [][\A i \in Ids :
          (test_state'[i] # test_state[i] \/ captured'[i] # captured[i]
              \/ progress_of'[i] # progress_of[i]) =>
              \E c \in Clients :
                  /\ req[c] # NoReq /\ req'[c] # req[c]
                  /\ client_test_id(c) = i]_vars

\* ------------------------------------------------------------------ C21
\* C21: when the control-plane server does not become healthy within the
\* timeout of ensure_api_server, main goes no further and no test is
\* executed.
C21_UnreachableServerStopsRun ==
    api_server = "unreachable" =>
        /\ main = "startup"
        /\ \A t \in Tests : pc[t] = "pending" /\ dbStatus[t] = "pending"

\* ------------------------------------------------------------------ C22
\* C22: every test get_flaky_tests returns has at least one row PASSED and
\* at least one row FAILED, with those rows counted as its passes and
\* failures; a test without a FAILED row is not returned, whatever its
\* CRASHED rows.
C22_FlakyNeedsPassAndFail ==
    /\ \A r \in flaky :
          /\ table[r.test_id]["passed"] > 0 /\ table[r.test_id]["failed"] > 0
          /\ r.passes <= table[r.test_id]["passed"]
          /\ r.failures <= table[r.test_id]["failed"]
    /\ \A i \in RowTests :
          table[i]["failed"] = 0 => \A r \in flaky : r.test_id # i

\* one test passed and crashed and is not reported, the other passed and
\* failed and is
C22_Witness ==
    /\ table["t1"]["passed"] > 0 /\ table["t1"]["crashed"] > 0
    /\ table["t1"]["failed"] = 0
    /\ \E r \in flaky : r.test_id = "t2"
    /\ \A r \in flaky : r.test_id # "t1"

\* ------------------------------------------------------ expressions: claims
\* a call of resolve_variable has returned or raised
Resolved == outcome.fn = "resolve_variable"

\* C23: resolve_variable never raises: whatever the reference and the
\* context, the call returns, and an unresolvable reference returns null.
C23_ResolveNeverRaises == Resolved => outcome.value.t # "raised"

\* a call of evaluate has returned or raised
Evaluated == outcome.fn = "evaluate"

\* the right-hand side evaluate works on, when interpolation returns
ExpectedOf(c, e) == interpolate(c, Unquote(e.raw)).s

\* an expression whose operator is missing or unrecognized, whose pattern
\* for matches does not compile, whose type name for is is unknown or
\* whose length condition is malformed
Malformed(c, e) ==
    \/ ~PatternMatches(e)
    \/ e.op \notin Operators
    \/ e.op = "matches" /\ ~PatternCompiles(ExpectedOf(c, e))
    \/ e.op = "is" /\ TypeName(ExpectedOf(c, e)) = "unknown"
    \/ e.op = "length" /\ ~LengthParts(ExpectedOf(c, e)).matched

\* C24: evaluate never raises: every call returns a (passed, message)
\* pair, and a malformed expression returns passed = false with a message.
C24_EvaluateNeverRaises ==
    Evaluated =>
        /\ outcome.verdict.raised = ""
        /\ Malformed(context, outcome.expr) =>
              ~outcome.verdict.passed /\ outcome.verdict.message # ""

\* a call of interpolate has returned
Interpolated == outcome.fn = "interpolate" /\ outcome.value.t # "raised"

\* what a caller sees a reference resolve to
ResolvesTo(c, a) == resolve_variable(c, RefTable[a])

\* the part of the result that the i-th piece of the text accounts for
Piece(c, text, i) ==
    IF text[i] \in DOMAIN RefTable /\ ResolvesTo(c, text[i]).t # "NoneType"
    THEN ToStr(ResolvesTo(c, text[i]))
    ELSE <<text[i]>>

RECURSIVE Pieces(_, _, _)
Pieces(c, text, i) ==
    IF i > Len(text) THEN <<>> ELSE Piece(c, text, i) \o Pieces(c, text, i + 1)

\* C25: interpolate returns the text with every reference that resolves to
\* a value replaced by the value's string form, and every reference that
\* resolves to null, and all other text, as written; a text whose
\* references all resolve to null comes back unchanged.
C25_InterpolateKeepsUnresolved ==
    Interpolated =>
        /\ outcome.value.t = "str"
        /\ outcome.value.s = Pieces(context, outcome.text, 1)
        /\ (\A i \in DOMAIN outcome.text :
                outcome.text[i] \in DOMAIN RefTable
                    => ResolvesTo(context, outcome.text[i]).t = "NoneType")
              => outcome.value.s = outcome.text

\* state.x is set and state.zz is not: the first is replaced, the second kept
C25_Witness ==
    /\ Interpolated
    /\ outcome.text = <<"a", "${state.zz}", "${state.x}">>
    /\ context.ns["state"].m = [x |-> IntValue(1)]
    /\ outcome.value.s = <<"a", "${state.zz}", "1">>

\* a call of evaluate with operator op has returned a verdict on a
\* well-formed expression
Judged(op) ==
    /\ Evaluated
    /\ outcome.verdict.raised = ""
    /\ PatternMatches(outcome.expr)
    /\ outcome.expr.op = op

\* the resolved left side and the unquoted, interpolated right side
ActualOf(c, e) == resolve_variable(c, RefTable[e.head])

\* both operands are numbers
BothNumeric(actual, expected) ==
    /\ actual.t # "NoneType"
    /\ ToFloat(actual).t = "float"
    /\ ParseFloat(expected).t = "float"

\* C26: with ==, when the resolved value and the right-hand literal both
\* convert to numbers the assertion passes exactly when the numbers are
\* equal, and otherwise exactly when the value equals the literal; exit
\* code 0 passes "== 0" and exit code 1 fails it.
C26_EqualsNumericThenLiteral ==
    Judged("==") =>
        LET actual == ActualOf(context, outcome.expr)
            expected == ExpectedOf(context, outcome.expr)
        IN  /\ BothNumeric(actual, expected) =>
                (outcome.verdict.passed <=> ToFloat(actual).n = ParseFloat(expected).n)
            /\ ~BothNumeric(actual, expected) =>
                (outcome.verdict.passed <=> (actual.t = "str" /\ actual.s = expected))
            /\ (outcome.expr.head = "${last.exit_code}" /\ outcome.expr.raw = <<"0">>
                  /\ actual.t = "int")
                => (outcome.verdict.passed <=> actual.n = 0)

\* exit code 0 passes ${last.exit_code} == 0
C26_Witness ==
    /\ Judged("==")
    /\ outcome.expr = Expr("${last.exit_code}", "==", <<"0">>)
    /\ ActualOf(context, outcome.expr) = IntValue(0)
    /\ outcome.verdict.passed

\* C27: with contains, the assertion passes exactly when the string form
\* of the resolved value contains the unquoted, interpolated right-hand
\* literal, for every resolved value, the number 0 included.
C27_ContainsIsSubstring ==
    Judged("contains") =>
        (outcome.verdict.passed
            <=> Contains(ToStr(ActualOf(context, outcome.expr)),
                         ExpectedOf(context, outcome.expr)))

\* the characters of the operands, in code-point order
CodePoints ==
    <<" ", "\"", "$", "'", ".", "0", "1", "2", "3", "4", "5", "6", "7", "8", "9",
      "=", ">", "F", "N", "T", "[", "]", "_", "a", "b", "c", "d", "e", "g", "l",
      "n", "o", "r", "s", "u", "{", "}">>

\* a reference left as written starts with "$"
Rank(ch) ==
    LET first == IF ch \in DOMAIN RefTable THEN "$" ELSE ch
    IN  CHOOSE i \in DOMAIN CodePoints : CodePoints[i] = first

RECURSIVE LexLess(_, _)
\* a < b for two strings, in lexical order
LexLess(a, b) ==
    IF b = <<>> THEN FALSE
    ELSE IF a = <<>> THEN TRUE
    ELSE IF Rank(Head(a)) # Rank(Head(b)) THEN Rank(Head(a)) < Rank(Head(b))
    ELSE LexLess(Tail(a), Tail(b))

LexCompare(op, a, b) ==
    CASE op = ">" -> LexLess(b, a)
      [] op = "<" -> LexLess(a, b)
      [] op = ">=" -> ~LexLess(a, b)
      [] OTHER -> ~LexLess(b, a)

\* C28: with >, <, >= and <=, operands that both convert to numbers are
\* compared as numbers, and when either does not convert the two operands
\* are compared as strings in lexical order.
C28_OrderFallsBackToLexical ==
    \A op \in {">", "<", ">=", "<="} :
        Judged(op) =>
            LET actual == ActualOf(context, outcome.expr)
                expected == ExpectedOf(context, outcome.expr)
            IN  IF BothNumeric(actual, expected)
                THEN outcome.verdict.passed
                        <=> Compare(OpChars(op), ToFloat(actual).n, ParseFloat(expected).n)
                ELSE outcome.verdict.passed
                        <=> LexCompare(op, ToStr(actual), expected)

\* a call of resolve_variable with a bare, un-prefixed name has returned
BareResolved ==
    /\ Resolved
    /\ outcome.value.t # "raised"
    /\ outcome.ref.prefix = ""
    /\ Len(outcome.ref.parts) = 1

\* the first of last (for exit_code, stdout, stderr), captured, state and
\* config that contains the name supplies the value
FirstNamespaceWith(c, name) ==
    LET last == NsGet(c, "last").m
        capt == NsGet(c, "captured").m
        state == NsGet(c, "state").m
        config == NsGet(c, "config").m
    IN  IF name \in BareNames /\ name \in DOMAIN last THEN last[name]
        ELSE IF name \in DOMAIN capt THEN capt[name]
        ELSE IF name \in DOMAIN state THEN state[name]
        ELSE IF name \in DOMAIN config THEN config[name]
        ELSE NoneValue

\* C29: a bare name is resolved by trying the well-known fields of last,
\* then captured, then state, then config; the first namespace that
\* contains the name supplies the value.
C29_BareNameFirstNamespaceWins ==
    BareResolved => outcome.value = FirstNamespaceWith(context, outcome.ref.parts[1])

\* ------------------------------------------------------------ steps: claims
PhaseRank(phase) ==
    CASE phase = "setup" -> 1 [] phase = "main" -> 2
      [] phase = "assertions" -> 3 [] OTHER -> 4

\* the step of a phase has been dispatched
Attempted(phase, step) ==
    \E k \in DOMAIN tlog : tlog[k].phase = phase /\ tlog[k].step = step

\* the step of a phase has completed before position k of the log
CompletedBefore(phase, step, k) ==
    \E j \in 1..(k - 1) :
        /\ tlog[j].phase = phase /\ tlog[j].step = step
        /\ tlog[j].status \in {"passed", "failed"}

\* C30: within one test the steps run strictly in declared order through
\* setup, main and teardown, one at a time; assertions are evaluated only
\* after all main-phase steps have completed; and every execution attempts
\* the teardown steps, also after a main-phase step failed.
C30_StepsInOrderTeardownAlways ==
    /\ \A j, k \in DOMAIN tlog :
          j < k =>
              /\ PhaseRank(tlog[j].phase) <= PhaseRank(tlog[k].phase)
              /\ tlog[j].phase = tlog[k].phase => tlog[j].step < tlog[k].step
              /\ tlog[j].status # "running"
    /\ \A k \in DOMAIN tlog :
          tlog[k].phase = "assertions" =>
              \A i \in DOMAIN tplan.main : CompletedBefore("main", i, k)
    /\ tphase = "done" =>
          \A i \in DOMAIN tplan.teardown : Attempted("teardown", i)

\* a main-phase step failed under stop-on-fail and the teardown ran
C30_Witness ==
    /\ tphase = "done"
    /\ tplan.stop
    /\ \E k \in DOMAIN tlog : tlog[k].phase = "main" /\ tlog[k].status = "failed"
    /\ Len(tplan.teardown) = MaxSteps
    /\ Attempted("teardown", MaxSteps)

\* the positions of the log that hold a completed step
CompletedSteps ==
    {k \in DOMAIN tlog : tlog[k].phase \in {"setup", "main", "teardown"}
                         /\ tlog[k].status \in {"passed", "failed"}}

\* the result of the most recently completed step, if any
MostRecentResult ==
    IF CompletedSteps = {} THEN NoStepResult
    ELSE LET k == CHOOSE k \in CompletedSteps : \A j \in CompletedSteps : j <= k
         IN  HandlerResult(tlog[k].phase, tlog[k].step, tlog[k].status = "passed")

\* C31: at every point of a test's execution the one last value of the
\* evaluator context is the result of the most recently completed step of
\* the test, never that of a step that is still RUNNING.
C31_LastIsMostRecentCompleted ==
    /\ tlast = MostRecentResult
    /\ StepRunning =>
          tlast.stdout # [phase |-> tlog[Len(tlog)].phase, step |-> tlog[Len(tlog)].step]

\* the second main step is running and last is the result of the first,
\* which failed
C31_Witness ==
    /\ StepRunning
    /\ tlog[Len(tlog)].phase = "main" /\ tlog[Len(tlog)].step = 2
    /\ tlast = HandlerResult("main", 1, FALSE)

\* ------------------------------------------------------------------ C32
\* C32: complete_run records the run as FAILED when at least one of its
\* tests ended FAILED or crashed, and as COMPLETED only when none did.
C32_RunFailedIffFailedOrCrashed ==
    main = "exited" =>
        (runStatus = "failed"
            <=> \E t \in Tests : dbStatus[t] = "failed" \/ work[t] = "raised")

\* ------------------------------------------------------------------ C33
\* C33: in local mode every executed test ends PASSED when its result
\* passed and FAILED otherwise, and no local-mode test is ever recorded
\* as crashed, in the database or in the test-completed event.
C33_LocalNeverCrashed ==
    mode = "local" =>
        \A t \in Tests :
            /\ dbStatus[t] # "crashed" /\ sse[t] # "crashed"
            /\ Ended(t) =>
                  /\ ret[t].test_id = t
                  /\ dbStatus[t] = IF ret[t].passed THEN "passed" ELSE "failed"
                  /\ ret[t].passed <=> kind[t] = "pass"

\* a local run in which one test passed and another failed
C33_Witness ==
    /\ mode = "local"
    /\ \E t, u \in Tests :
          /\ Ended(t) /\ dbStatus[t] = "failed"
          /\ Ended(u) /\ dbStatus[u] = "passed"

\* ------------------------------------------------------------------ C34
\* C34: for every containerized test whose execution has ended, the
\* terminal status written to the database and the status of the
\* test-completed event are the same one of passed, failed, crashed, and
\* a crashed test has a result with passed = FALSE.
C34_StoredAndEmittedStatusAgree ==
    mode = "docker" =>
        \A t \in Tests :
            Ended(t) =>
                /\ dbStatus[t] \in {"passed", "failed", "crashed"}
                /\ sse[t] = dbStatus[t]
                /\ work[t] = "raised" => (ret[t].test_id = t /\ ~ret[t].passed)

\* ------------------------------------------------------------------ C35
\* C35: when the server is unreachable or answers with an error status no
\* RunnerClient operation raises: get_config and get_routine return None,
\* get_state, get_progress, get_context and get_all_routines return an
\* empty mapping, the writes return False and health returns False.
C35_ClientNeverRaises ==
    (cres.op # "none" /\ net # "ok") =>
        /\ cres.result.raised = ""
        /\ cres.op \in ReadsNone => cres.result = ClientNone
        /\ cres.op \in ReadsDict => cres.result = ClientDict(EmptyDict)
        /\ cres.op \in Writes => cres.result = ClientBool(FALSE)
        /\ cres.op = "health" => cres.result = ClientBool(FALSE)

\* get_state against a server that answers 500
C35_Witness ==
    /\ net = "status500"
    /\ cres.op = "get_state"
    /\ cres.result = ClientDict(EmptyDict)

\* ------------------------------------------------------------------ C36
\* the positive form of a negated operator
PositiveOf(op) ==
    CASE op = "!=" -> "==" [] op = "not contains" -> "contains" [] OTHER -> "exists"

\* what evaluate gives for the same reference and literal under the
\* positive operator
Twin(c, e) == evaluate(c, Expr(e.head, PositiveOf(e.op), e.raw))

\* C36: for every context, reference and literal, != passes exactly when
\* == fails, not contains exactly when contains fails, and not exists
\* exactly when exists fails; the two forms return or raise together.
C36_NegationIsComplement ==
    (Evaluated /\ PatternMatches(outcome.expr)
        /\ outcome.expr.op \in {"!=", "not contains", "not exists"}) =>
        /\ Twin(context, outcome.expr).raised = outcome.verdict.raised
        /\ outcome.verdict.raised = "" =>
              (outcome.verdict.passed <=> ~Twin(context, outcome.expr).passed)

\* exit code 0 passes not contains 1, and fails contains 1
C36_Witness ==
    /\ Evaluated
    /\ outcome.expr = Expr("${last.exit_code}", "not contains", <<"1">>)
    /\ ActualOf(context, outcome.expr) = IntValue(0)
    /\ outcome.verdict.passed
    /\ ~Twin(context, outcome.expr).passed

\* ------------------------------------------------------------------ C37
\* the left side resolves to null and the right side is a number
NullAgainstNumber(c, e) ==
    /\ ActualOf(c, e).t = "NoneType"
    /\ ParseFloat(ExpectedOf(c, e)).t = "float"

\* C37: with >, <, >= and <= and a numeric right-hand literal, a reference
\* that resolves to null is compared as the number 0, whereas with == it
\* equals no number, 0 included.
C37_NullComparesAsZero ==
    /\ \A op \in {">", "<", ">=", "<="} :
          (Judged(op) /\ NullAgainstNumber(context, outcome.expr)) =>
              (outcome.verdict.passed
                  <=> Compare(OpChars(op), 0,
                              ParseFloat(ExpectedOf(context, outcome.expr)).n))
    /\ (Judged("==") /\ NullAgainstNumber(context, outcome.expr)) =>
          ~outcome.verdict.passed

\* an unset state.x passes "< 1"
C37_Witness ==
    /\ Judged("<")
    /\ outcome.expr = Expr("${state.x}", "<", <<"1">>)
    /\ "x" \notin DOMAIN context.ns["state"].m
    /\ outcome.verdict.passed

====
